---- MODULE Spec2Model ----
(***************************************************************************)
(* A model of the multipart upload proxy: the HTTP handler (proxyHandler), *)
(* the multipart reconstructor (reformatMultipart), the image processing   *)
(* pipeline (processImageWithStrategy and its helpers) and the dimension   *)
(* calculator.  The image codec (bimg) is an external collaborator: its    *)
(* calls are modelled at their call sites, with every outcome the library  *)
(* documents (success with some encoded length, or an error).              *)
(***************************************************************************)
EXTENDS Integers, Sequences, FiniteSets, TLC

(***************************************************************************)
(* Bounds of the model.                                                    *)
(***************************************************************************)
\* image widths and heights range over 1..MaxDim
MaxDim == 2
\* the configured IMG_MAX_WIDTH / IMG_MAX_HEIGHT range over 1..MaxLimit and
\* IMG_MAX_NARROW_SIDE over 0..MaxLimit
MaxLimit == 1
\* byte buffers (uploads, rotated and encoded images) have 1..MaxLen bytes
MaxLen == 2
\* a form body carries at most MaxFields non-file parts
MaxFields == 2
\* the dimension calculator alone is run on sides 1..MaxSide, box limits
\* 1..MaxBox and narrow-side limits 0..MaxNarrow
MaxSide == 22
MaxBox == 4
\* with the narrow-side limit disabled the box limits also range over
\* 1..MaxWideBox: a side of 22 under a limit of 15 is the smallest case in
\* which the float64 product is truncated to one below the exact product
MaxWideBox == 15
MaxNarrow == 15
\* the extension functions alone are run on names of at most MaxName characters
MaxName == 4
\* the number of environment variables set at once
MaxSet == 2
\* the number of requests handled at the same time
MaxTasks == 2

(***************************************************************************)
(* Program constants.                                                      *)
(***************************************************************************)
EXIF_ORIENTATION_NORMAL == 1
DEFAULT_MIME_TYPE == "application/octet-stream"
JPEG_MIME_TYPE == "image/jpeg"
WEBP_MIME_TYPE == "image/webp"
DEFAULT_JPEG_QUALITY == 90
DEFAULT_WEBP_QUALITY == 85

(***************************************************************************)
(* Strings that the code takes apart (file names) are sequences of         *)
(* one-character strings; strings it only compares or copies (MIME types,  *)
(* field names and values) are TLA+ strings.                               *)
(***************************************************************************)
ExtJPG == <<".", "J", "P", "G">>
ExtWEBP == <<".", "W", "E", "B", "P">>

IsPathSeparator(c) == c = "/"

\* filepath.Ext: the suffix beginning at the last dot of the last path
\* element; scans from the end and stops at a path separator.
RECURSIVE ExtFrom(_, _)
ExtFrom(path, i) ==
    IF i < 1 \/ IsPathSeparator(path[i]) THEN <<>>
    ELSE IF path[i] = "." THEN SubSeq(path, i, Len(path))
    ELSE ExtFrom(path, i - 1)

Ext(path) == ExtFrom(path, Len(path))

RECURSIVE LastIndexOf(_, _, _)
\* the last position up to i where s has the character c, 0 if none
LastIndexOf(s, c, i) ==
    IF i < 1 THEN 0 ELSE IF s[i] = c THEN i ELSE LastIndexOf(s, c, i - 1)

Min(a, b) == IF a < b THEN a ELSE b
Max(a, b) == IF a > b THEN a ELSE b

HasSuffix(s, suffix) ==
    /\ Len(suffix) <= Len(s)
    /\ SubSeq(s, Len(s) - Len(suffix) + 1, Len(s)) = suffix

\* strings.TrimSuffix
TrimSuffix(s, suffix) ==
    IF HasSuffix(s, suffix) THEN SubSeq(s, 1, Len(s) - Len(suffix)) ELSE s

\* an extension function that appends and never replaces
changeExtensionToJPGAppending(filename) == filename \o ExtJPG

changeExtensionToJPG(filename) ==
    LET extension == Ext(filename)
    IN  IF extension = <<>> THEN filename \o ExtJPG
        ELSE TrimSuffix(filename, extension) \o ExtJPG

\* a copy of changeExtensionToJPG that kept its extension
changeExtensionToWebPAsJPG(filename) == changeExtensionToJPG(filename)

changeExtensionToWebP(filename) ==
    LET extension == Ext(filename)
    IN  IF extension = <<>> THEN filename \o ExtWEBP
        ELSE TrimSuffix(filename, extension) \o ExtWEBP

(***************************************************************************)
(* float64 arithmetic of the dimension calculator.                         *)
(*                                                                         *)
(* A scale factor float64(num)/float64(den) is carried as the pair         *)
(* <<num, den>>.  MulTrunc(x, scale) is int(float64(x) * scale) with both  *)
(* IEEE-754 roundings (of the quotient, to 53 bits, and of the product).   *)
(* For operands below 2^20: when x*num/den is not an integer the           *)
(* truncation is its floor (the rounding error is far smaller than 1/den); *)
(* when it is an integer k, the product is k or the double just below k,   *)
(* which truncates to k-1.  The latter happens exactly when the quotient   *)
(* was rounded down by rho/(den*2^s) and x times that exceeds half the     *)
(* spacing of the doubles below k.  A negative factor (a negative limit)   *)
(* rounds as its magnitude does, and int() truncates towards zero.         *)
(***************************************************************************)
RECURSIVE Pow2(_)
Pow2(e) == IF e <= 0 THEN 1 ELSE 2 * Pow2(e - 1)

\* 2^s mod n, by repeated squaring
RECURSIVE Pow2Mod(_, _)
Pow2Mod(s, n) ==
    IF s <= 0 THEN 1 % n
    ELSE LET half == Pow2Mod(s \div 2, n)
         IN  (((half * half) % n) * (IF s % 2 = 1 THEN 2 ELSE 1)) % n

RECURSIVE FloorLog2(_)
FloorLog2(k) == IF k < 2 THEN 0 ELSE 1 + FloorLog2(k \div 2)

RECURSIVE Doublings(_, _)
Doublings(m, n) == IF m >= n THEN 0 ELSE 1 + Doublings(2 * m, n)

\* the exponent e of a positive ratio: 2^e <= num/den < 2^(e+1)
RatioExp(num, den) ==
    IF num >= den THEN FloorLog2(num \div den) ELSE 0 - Doublings(num, den)

\* float64(num)/float64(den) = M / 2^s with M the 53-bit significand;
\* QuotientError is num*2^s - M*den: positive when the quotient was rounded
\* down, negative when rounded up, 0 when it is exact.
QuotientError(num, den) ==
    LET s == 52 - RatioExp(num, den)
        r == ((num % den) * Pow2Mod(s, den)) % den
    IN  IF 2 * r < den THEN r ELSE r - den

MulTrunc(x, scale) ==
    LET negative == scale[1] < 0
        num == IF negative THEN 0 - scale[1] ELSE scale[1]
        den == scale[2]
        k == (x * num) \div den
        magnitude ==
            IF (x * num) % den # 0 \/ k = 0 THEN k
            ELSE LET rho == QuotientError(num, den)
                     e == FloorLog2(k)
                     shift == e - RatioExp(num, den)
                              + (IF k = Pow2(e) THEN 0 ELSE 1)
                 IN  IF rho > 0 /\ 4 * x * rho > den * Pow2(shift) THEN k - 1
                     ELSE k
    IN  IF negative THEN 0 - magnitude ELSE magnitude

\* a < b on two float64 quotients of small integers
FloatLess(a, b) == a[1] * b[2] < b[1] * a[2]

(***************************************************************************)
(* Dimension calculator.                                                   *)
(***************************************************************************)
ImageSize(w, h) == [Width |-> w, Height |-> h]

\* a narrow-side calculator that scales whether or not the limit is exceeded
calculateNarrowSideResizeAlways(original, maxNarrowSide) ==
    LET narrowSide == IF original.Height < original.Width
                      THEN original.Height ELSE original.Width
        scale == <<maxNarrowSide, narrowSide>>
    IN  ImageSize(MulTrunc(original.Width, scale), MulTrunc(original.Height, scale))

calculateNarrowSideResize(original, maxNarrowSide) ==
    LET narrowSide == IF original.Height < original.Width
                      THEN original.Height ELSE original.Width
        scale == <<maxNarrowSide, narrowSide>>
    IN  IF narrowSide <= maxNarrowSide THEN original
        ELSE ImageSize(MulTrunc(original.Width, scale),
                       MulTrunc(original.Height, scale))

\* a bounding box that scales whether or not the image fits
calculateBoundingBoxResizeAlways(original, maxWidth, maxHeight) ==
    LET configLongEdge == IF maxHeight > maxWidth THEN maxHeight ELSE maxWidth
        configShortEdge == IF maxHeight > maxWidth THEN maxWidth ELSE maxHeight
        isLandscape == original.Width >= original.Height
        effectiveMaxWidth == IF isLandscape THEN configLongEdge ELSE configShortEdge
        effectiveMaxHeight == IF isLandscape THEN configShortEdge ELSE configLongEdge
        scaleWidth == <<effectiveMaxWidth, original.Width>>
        scaleHeight == <<effectiveMaxHeight, original.Height>>
        scale == IF FloatLess(scaleHeight, scaleWidth) THEN scaleHeight ELSE scaleWidth
    IN  ImageSize(MulTrunc(original.Width, scale), MulTrunc(original.Height, scale))

\* a bounding box that always scales by the width's factor
calculateBoundingBoxResizeByWidth(original, maxWidth, maxHeight) ==
    LET configLongEdge == IF maxHeight > maxWidth THEN maxHeight ELSE maxWidth
        configShortEdge == IF maxHeight > maxWidth THEN maxWidth ELSE maxHeight
        isLandscape == original.Width >= original.Height
        effectiveMaxWidth == IF isLandscape THEN configLongEdge ELSE configShortEdge
        effectiveMaxHeight == IF isLandscape THEN configShortEdge ELSE configLongEdge
        scale == <<effectiveMaxWidth, original.Width>>
    IN  IF original.Width <= effectiveMaxWidth /\ original.Height <= effectiveMaxHeight
        THEN original
        ELSE ImageSize(MulTrunc(original.Width, scale),
                       MulTrunc(original.Height, scale))

\* a bounding box that takes maxWidth x maxHeight as configured, whatever
\* the orientation of the image
calculateBoundingBoxResizeFixedBox(original, maxWidth, maxHeight) ==
    LET scaleWidth == <<maxWidth, original.Width>>
        scaleHeight == <<maxHeight, original.Height>>
        scale == IF FloatLess(scaleHeight, scaleWidth) THEN scaleHeight ELSE scaleWidth
    IN  IF original.Width <= maxWidth /\ original.Height <= maxHeight
        THEN original
        ELSE ImageSize(MulTrunc(original.Width, scale),
                       MulTrunc(original.Height, scale))

\* a calculator that takes the larger of the two scale factors
calculateBoundingBoxResizeLargerScale(original, maxWidth, maxHeight) ==
    LET configLongEdge == IF maxHeight > maxWidth THEN maxHeight ELSE maxWidth
        configShortEdge == IF maxHeight > maxWidth THEN maxWidth ELSE maxHeight
        isLandscape == original.Width >= original.Height
        effectiveMaxWidth == IF isLandscape THEN configLongEdge ELSE configShortEdge
        effectiveMaxHeight == IF isLandscape THEN configShortEdge ELSE configLongEdge
        scaleWidth == <<effectiveMaxWidth, original.Width>>
        scaleHeight == <<effectiveMaxHeight, original.Height>>
        scale == IF FloatLess(scaleHeight, scaleWidth) THEN scaleWidth ELSE scaleHeight
    IN  IF original.Width <= effectiveMaxWidth /\ original.Height <= effectiveMaxHeight
        THEN original
        ELSE ImageSize(MulTrunc(original.Width, scale),
                       MulTrunc(original.Height, scale))

calculateBoundingBoxResize(original, maxWidth, maxHeight) ==
    LET configLongEdge == IF maxHeight > maxWidth THEN maxHeight ELSE maxWidth
        configShortEdge == IF maxHeight > maxWidth THEN maxWidth ELSE maxHeight
        isLandscape == original.Width >= original.Height
        effectiveMaxWidth == IF isLandscape THEN configLongEdge ELSE configShortEdge
        effectiveMaxHeight == IF isLandscape THEN configShortEdge ELSE configLongEdge
        scaleWidth == <<effectiveMaxWidth, original.Width>>
        scaleHeight == <<effectiveMaxHeight, original.Height>>
        scale == IF FloatLess(scaleHeight, scaleWidth) THEN scaleHeight ELSE scaleWidth
    IN  IF original.Width <= effectiveMaxWidth /\ original.Height <= effectiveMaxHeight
        THEN original
        ELSE ImageSize(MulTrunc(original.Width, scale),
                       MulTrunc(original.Height, scale))

\* the older variant with its orientation test inverted
calculateBoundingBoxResizeSwapWhenEqual(original, maxWidth, maxHeight) ==
    LET isLandscape == original.Width >= original.Height
        configIsLandscape == maxWidth >= maxHeight
        effectiveMaxWidth == IF isLandscape # configIsLandscape THEN maxWidth
                             ELSE maxHeight
        effectiveMaxHeight == IF isLandscape # configIsLandscape THEN maxHeight
                              ELSE maxWidth
        scaleWidth == <<effectiveMaxWidth, original.Width>>
        scaleHeight == <<effectiveMaxHeight, original.Height>>
        scale == IF FloatLess(scaleHeight, scaleWidth) THEN scaleHeight ELSE scaleWidth
    IN  IF original.Width <= effectiveMaxWidth /\ original.Height <= effectiveMaxHeight
        THEN original
        ELSE ImageSize(MulTrunc(original.Width, scale),
                       MulTrunc(original.Height, scale))

\* the older variant of calculateBoundingBoxResize: the limits are swapped
\* only when the orientation of the image and of the configured box differ
calculateBoundingBoxResizeSwap(original, maxWidth, maxHeight) ==
    LET isLandscape == original.Width >= original.Height
        configIsLandscape == maxWidth >= maxHeight
        effectiveMaxWidth == IF isLandscape = configIsLandscape THEN maxWidth
                             ELSE maxHeight
        effectiveMaxHeight == IF isLandscape = configIsLandscape THEN maxHeight
                              ELSE maxWidth
        scaleWidth == <<effectiveMaxWidth, original.Width>>
        scaleHeight == <<effectiveMaxHeight, original.Height>>
        scale == IF FloatLess(scaleHeight, scaleWidth) THEN scaleHeight ELSE scaleWidth
    IN  IF original.Width <= effectiveMaxWidth /\ original.Height <= effectiveMaxHeight
        THEN original
        ELSE ImageSize(MulTrunc(original.Width, scale),
                       MulTrunc(original.Height, scale))

\* a calculator that applies the bounding box on top of the narrow-side limit
calculateResizeDimensionsBlended(original, settings) ==
    IF settings.MaxNarrowSide > 0
    THEN calculateBoundingBoxResize(
             calculateNarrowSideResize(original, settings.MaxNarrowSide),
             settings.MaxWidth, settings.MaxHeight)
    ELSE calculateBoundingBoxResize(original, settings.MaxWidth, settings.MaxHeight)

calculateResizeDimensions(original, settings) ==
    IF settings.MaxNarrowSide > 0
    THEN calculateNarrowSideResize(original, settings.MaxNarrowSide)
    ELSE calculateBoundingBoxResize(original, settings.MaxWidth, settings.MaxHeight)

(***************************************************************************)
(* Byte buffers.  A buffer is described by what the codec can observe of   *)
(* it: whether it decodes as an image, its encoded format, its length in   *)
(* bytes, its pixel size, whether it has an alpha channel, and its EXIF    *)
(* orientation.  Two buffers are the same bytes iff the records are equal. *)
(***************************************************************************)
Formats == {"jpeg", "png"}
\* 1 is upright, 6 is a quarter turn (width and height change places)
Orientations == {EXIF_ORIENTATION_NORMAL, 6}

NonImage(len) ==
    [decodable |-> FALSE, fmt |-> "none", len |-> len, w |-> 0, h |-> 0,
     alpha |-> FALSE, orient |-> 0]

Images ==
    [decodable : {TRUE}, fmt : Formats, len : 1..MaxLen, w : 1..MaxDim,
     h : 1..MaxDim, alpha : BOOLEAN, orient : Orientations]

Uploads == Images \cup {NonImage(l) : l \in 1..MaxLen}

(***************************************************************************)
(* The codec (bimg) at its call sites.  Metadata and Size are functions of *)
(* the bytes; AutoRotate and Process also depend on the codec's outcome    *)
(* for that call, which the environment chooses.                           *)
(***************************************************************************)
\* image.Metadata(): err, Alpha, Orientation
Metadata(b) ==
    [err |-> ~b.decodable, Alpha |-> b.alpha, Orientation |-> b.orient]

\* image.Size(): err, Width, Height
Size(b) == [err |-> ~b.decodable, Width |-> b.w, Height |-> b.h]

\* outcomes of image.AutoRotate(): an error, an upright image of some
\* length, or bytes that no longer decode
RotateOutcomes ==
    {[ok |-> FALSE, len |-> 0, decodable |-> FALSE]}
    \cup {[ok |-> TRUE, len |-> l, decodable |-> TRUE] : l \in 1..MaxLen}
    \cup {[ok |-> TRUE, len |-> 1, decodable |-> FALSE]}

Transposes(orient) == orient >= 5

AutoRotate(b, o) ==
    IF ~o.ok THEN [err |-> TRUE, bytes |-> b]
    ELSE IF ~o.decodable THEN [err |-> FALSE, bytes |-> NonImage(o.len)]
    ELSE [err |-> FALSE,
          bytes |-> [decodable |-> TRUE, fmt |-> b.fmt, len |-> o.len,
                     w |-> IF Transposes(b.orient) THEN b.h ELSE b.w,
                     h |-> IF Transposes(b.orient) THEN b.w ELSE b.h,
                     alpha |-> b.alpha, orient |-> EXIF_ORIENTATION_NORMAL]]

\* outcomes of image.Process(options): an error or an encoding of some length
ProcessOutcomes ==
    {[ok |-> FALSE, len |-> 0]} \cup {[ok |-> TRUE, len |-> l] : l \in 1..MaxLen}

TypeFormat(type, sourceFmt) ==
    IF type = "JPEG" THEN "jpeg" ELSE IF type = "WEBP" THEN "webp" ELSE sourceFmt

\* A dimension that is not positive in bimg.Options is unconstrained: the
\* codec keeps the aspect ratio and emits at least one pixel.
Pixels(requested) == IF requested > 0 THEN requested ELSE 1

\* with neither dimension positive the codec keeps the size of the image
Identity(options) == options.Width <= 0 /\ options.Height <= 0

\* image.Process(options): options.Type "" keeps the source format
Process(b, options, o) ==
    IF ~o.ok \/ ~b.decodable THEN [err |-> TRUE, bytes |-> b]
    ELSE [err |-> FALSE,
          bytes |-> [decodable |-> TRUE,
                     fmt |-> TypeFormat(options.Type, b.fmt),
                     len |-> o.len,
                     w |-> IF Identity(options) THEN b.w
                           ELSE Pixels(options.Width),
                     h |-> IF Identity(options) THEN b.h
                           ELSE Pixels(options.Height),
                     alpha |-> b.alpha /\ TypeFormat(options.Type, b.fmt) # "jpeg",
                     orient |-> b.orient]]

\* the codec outcomes of one request
CodecOutcomes == [rotate : RotateOutcomes, process : ProcessOutcomes]

(***************************************************************************)
(* The image processing pipeline.                                          *)
(***************************************************************************)
\* a detector that never reports an alpha channel
detectImageTransparencyOpaque(imageData) ==
    [has |-> FALSE, err |-> Metadata(imageData).err]

detectImageTransparency(imageData) ==
    LET metadata == Metadata(imageData)
    IN  IF metadata.err THEN [has |-> FALSE, err |-> TRUE]
        ELSE [has |-> metadata.Alpha, err |-> FALSE]

\* an orientation step that reports a failed rotation as an error
handleEXIFOrientationStrict(originalData, codec) ==
    LET metadata == Metadata(originalData)
        needsRotation == ~metadata.err /\ metadata.Orientation > EXIF_ORIENTATION_NORMAL
        rotated == AutoRotate(originalData, codec.rotate)
    IN  IF needsRotation
        THEN [image |-> rotated.bytes, data |-> rotated.bytes, err |-> rotated.err,
              calls |-> <<"AutoRotate">>]
        ELSE [image |-> originalData, data |-> originalData, err |-> FALSE,
              calls |-> <<>>]

\* returns the working image, the working bytes and a (always nil) error;
\* calls lists the codec transformations invoked
handleEXIFOrientation(originalData, codec) ==
    LET metadata == Metadata(originalData)
        needsRotation == ~metadata.err /\ metadata.Orientation > EXIF_ORIENTATION_NORMAL
        rotated == AutoRotate(originalData, codec.rotate)
    IN  IF needsRotation
        THEN IF rotated.err
             THEN [image |-> originalData, data |-> originalData, err |-> FALSE,
                   calls |-> <<"AutoRotate">>]
             ELSE [image |-> rotated.bytes, data |-> rotated.bytes, err |-> FALSE,
                   calls |-> <<"AutoRotate">>]
        ELSE [image |-> originalData, data |-> originalData, err |-> FALSE,
              calls |-> <<>>]

NoSize == ImageSize(0, 0)

\* CodecCalls is not a field of the Go struct: it records the codec
\* transformations (AutoRotate, Process) the call made, in order.
ImageProcessingResult(data, compressed, resized, dims, error, calls) ==
    [ProcessedData |-> data, WasCompressed |-> compressed, WasResized |-> resized,
     NewDimensions |-> dims, ProcessingError |-> error, CodecCalls |-> calls]

\* The return sites of processImageWithStrategy.  ProcessingError "nil" is
\* Go's nil error; the function's second return value is the same error.
TransparencySkip(originalData) ==
    ImageProcessingResult(originalData, FALSE, FALSE, NoSize, "nil", <<>>)

\* a size failure that hands back no bytes
SizeFailedEmpty(rotatedData, calls) ==
    ImageProcessingResult(NonImage(0), FALSE, FALSE, NoSize, "size", calls)

SizeFailed(rotatedData, calls) ==
    ImageProcessingResult(rotatedData, FALSE, FALSE, NoSize, "size", calls)

NoResizeNeeded(rotatedData, oldSize, calls) ==
    ImageProcessingResult(rotatedData, FALSE, FALSE, oldSize, "nil", calls)

\* a failed resize that reports no dimensions
ResizeFailedNoSize(rotatedData, oldSize, calls) ==
    ImageProcessingResult(rotatedData, FALSE, FALSE, NoSize, "process", calls)

ResizeFailed(rotatedData, oldSize, calls) ==
    ImageProcessingResult(rotatedData, FALSE, FALSE, oldSize, "process", calls)

Resized(processedData, newDimensions, calls) ==
    ImageProcessingResult(processedData, FALSE, TRUE, newDimensions, "nil", calls)

\* a failed conversion that hands back no bytes
ConvertFailedEmpty(rotatedData, oldSize, calls) ==
    ImageProcessingResult(NonImage(0), FALSE, FALSE, oldSize, "process", calls)

ConvertFailed(rotatedData, oldSize, calls) ==
    ImageProcessingResult(rotatedData, FALSE, FALSE, oldSize, "process", calls)

\* a conversion that reports compression but keeps the working bytes
ConvertedKeepsBytes(processedData, rotatedData, newDimensions, oldSize, calls) ==
    LET wasCompressed == processedData.len < rotatedData.len
        wasResized == \/ newDimensions.Width # oldSize.Width
                      \/ newDimensions.Height # oldSize.Height
    IN  ImageProcessingResult(rotatedData, wasCompressed, wasResized, newDimensions,
                              "nil", calls)

\* a conversion adopted when it is not larger, rather than strictly smaller
ConvertedWhenNotLarger(processedData, rotatedData, newDimensions, oldSize, calls) ==
    LET wasCompressed == processedData.len <= rotatedData.len
        wasResized == \/ newDimensions.Width # oldSize.Width
                      \/ newDimensions.Height # oldSize.Height
        finalData == IF wasCompressed THEN processedData ELSE rotatedData
    IN  ImageProcessingResult(finalData, wasCompressed, wasResized, newDimensions,
                              "nil", calls)

Converted(processedData, rotatedData, newDimensions, oldSize, calls) ==
    LET wasCompressed == processedData.len < rotatedData.len
        wasResized == \/ newDimensions.Width # oldSize.Width
                      \/ newDimensions.Height # oldSize.Height
        finalData == IF wasCompressed THEN processedData ELSE rotatedData
    IN  ImageProcessingResult(finalData, wasCompressed, wasResized, newDimensions,
                              "nil", calls)

\* the transparency check that gates the whole pipeline
SkipsForTransparency(convertFormat, originalData) ==
    LET transparency == detectImageTransparency(originalData)
    IN  convertFormat # "" /\ ~transparency.err /\ transparency.has

\* the encode step of the conversion path and its two outcomes
convertOutcome(oriented, oldSize, newDimensions, processed) ==
    IF processed.err
    THEN ConvertFailed(oriented.data, oldSize, Append(oriented.calls, "Process"))
    ELSE Converted(processed.bytes, oriented.data, newDimensions, oldSize,
                   Append(oriented.calls, "Process"))

convertTo(settings, codec, oriented, oldSize, newDimensions) ==
    LET convertFormat == settings.ConvertToFormat
        targetType == IF convertFormat = "WEBP" THEN "WEBP" ELSE "JPEG"
        quality == IF convertFormat = "WEBP" THEN settings.WebpQuality
                   ELSE settings.JpegQuality
        options == [Width |-> newDimensions.Width, Height |-> newDimensions.Height,
                    Quality |-> quality, Type |-> targetType]
    IN  convertOutcome(oriented, oldSize, newDimensions,
                       Process(oriented.image, options, codec.process))

\* a resize that is attempted a second time when it fails
resizeOutcomeRetrying(oriented, oldSize, newDimensions, processed) ==
    IF processed.err
    THEN ResizeFailed(oriented.data, oldSize,
                      oriented.calls \o <<"Process", "Process">>)
    ELSE Resized(processed.bytes, newDimensions, Append(oriented.calls, "Process"))

\* the resize-only path (no format conversion) and its outcomes
resizeOutcome(oriented, oldSize, newDimensions, processed) ==
    IF processed.err
    THEN ResizeFailed(oriented.data, oldSize, Append(oriented.calls, "Process"))
    ELSE Resized(processed.bytes, newDimensions, Append(oriented.calls, "Process"))

resizeOnly(codec, oriented, oldSize, newDimensions) ==
    LET needsResize == \/ newDimensions.Width # oldSize.Width
                       \/ newDimensions.Height # oldSize.Height
        options == [Width |-> newDimensions.Width, Height |-> newDimensions.Height,
                    Quality |-> 0, Type |-> ""]
    IN  IF ~needsResize
        THEN NoResizeNeeded(oriented.data, oldSize, oriented.calls)
        ELSE resizeOutcome(oriented, oldSize, newDimensions,
                           Process(oriented.image, options, codec.process))

\* processImageWithStrategy once the size of the working image is known
processSized(settings, codec, oriented, oldSize, newDimensions) ==
    IF settings.ConvertToFormat = ""
    THEN resizeOnly(codec, oriented, oldSize, newDimensions)
    ELSE convertTo(settings, codec, oriented, oldSize, newDimensions)

\* processImageWithStrategy once the orientation has been handled;
\* oriented is what handleEXIFOrientation returned
processOriented(originalData, settings, codec, oriented, oldImageSize) ==
    IF oriented.err
    THEN ImageProcessingResult(originalData, FALSE, FALSE, NoSize, "orientation",
                               oriented.calls)
    ELSE IF oldImageSize.err
    THEN SizeFailed(oriented.data, oriented.calls)
    ELSE processSized(settings, codec, oriented,
                      ImageSize(oldImageSize.Width, oldImageSize.Height),
                      calculateResizeDimensions(
                          ImageSize(oldImageSize.Width, oldImageSize.Height), settings))

processWorking(originalData, settings, codec, oriented) ==
    processOriented(originalData, settings, codec, oriented, Size(oriented.image))

processImageWithStrategy(originalData, settings, codec) ==
    IF SkipsForTransparency(settings.ConvertToFormat, originalData)
    THEN TransparencySkip(originalData)
    ELSE processWorking(originalData, settings, codec,
                        handleEXIFOrientation(originalData, codec))

(***************************************************************************)
(* The pipeline of proxy.go, which proxyHandler runs.  It reads the        *)
(* conversion format and the WEBP quality from the global settings         *)
(* (globals), its result has no WasResized, and its bounding box is the    *)
(* configured box whatever the orientation of the image.                   *)
(***************************************************************************)
calculateBoundingBoxResize_proxy(original, maxWidth, maxHeight) ==
    LET scaleWidth == <<maxWidth, original.Width>>
        scaleHeight == <<maxHeight, original.Height>>
        scale == IF FloatLess(scaleHeight, scaleWidth) THEN scaleHeight ELSE scaleWidth
    IN  IF original.Width <= maxWidth /\ original.Height <= maxHeight
        THEN original
        ELSE ImageSize(MulTrunc(original.Width, scale),
                       MulTrunc(original.Height, scale))

calculateResizeDimensions_proxy(original, settings) ==
    IF settings.MaxNarrowSide > 0
    THEN calculateNarrowSideResize(original, settings.MaxNarrowSide)
    ELSE calculateBoundingBoxResize_proxy(original, settings.MaxWidth,
                                          settings.MaxHeight)

\* CodecCalls is not a field of the Go struct, as above
ImageProcessingResult_proxy(data, compressed, dims, error, calls) ==
    [ProcessedData |-> data, WasCompressed |-> compressed, NewDimensions |-> dims,
     ProcessingError |-> error, CodecCalls |-> calls]

NoResult_proxy ==
    ImageProcessingResult_proxy(NonImage(0), FALSE, NoSize, "not run", <<>>)

\* the encode step of the conversion path and its two outcomes
convertOutcome_proxy(oriented, oldSize, newDimensions, processed) ==
    LET wasCompressed == processed.bytes.len < oriented.data.len
        finalData == IF wasCompressed THEN processed.bytes ELSE oriented.data
    IN  IF processed.err
        THEN ImageProcessingResult_proxy(oriented.data, FALSE, oldSize, "process",
                                         Append(oriented.calls, "Process"))
        ELSE ImageProcessingResult_proxy(finalData, wasCompressed, newDimensions,
                                         "nil", Append(oriented.calls, "Process"))

\* the resize-only call and its two outcomes
resizeOutcome_proxy(oriented, oldSize, newDimensions, processed) ==
    IF processed.err
    THEN ImageProcessingResult_proxy(oriented.data, FALSE, oldSize, "process",
                                     Append(oriented.calls, "Process"))
    ELSE ImageProcessingResult_proxy(processed.bytes, FALSE, newDimensions, "nil",
                                     Append(oriented.calls, "Process"))

\* processImageWithStrategy once the size of the working image is known
processSized_proxy(settings, globals, codec, oriented, oldSize, newDimensions) ==
    LET convertFormat == globals.CONVERT_TO_FORMAT
        needsResize == \/ newDimensions.Width # oldSize.Width
                       \/ newDimensions.Height # oldSize.Height
        targetType == IF convertFormat = "WEBP" THEN "WEBP" ELSE "JPEG"
        quality == IF convertFormat = "WEBP" THEN globals.WEBP_QUALITY
                   ELSE settings.JpegQuality
    IN  IF convertFormat = ""
        THEN IF ~needsResize
             THEN ImageProcessingResult_proxy(oriented.data, FALSE, oldSize, "nil",
                                              oriented.calls)
             ELSE resizeOutcome_proxy(
                      oriented, oldSize, newDimensions,
                      Process(oriented.image,
                              [Width |-> newDimensions.Width,
                               Height |-> newDimensions.Height,
                               Quality |-> 0, Type |-> ""],
                              codec.process))
        ELSE convertOutcome_proxy(
                 oriented, oldSize, newDimensions,
                 Process(oriented.image,
                         [Width |-> newDimensions.Width,
                          Height |-> newDimensions.Height,
                          Quality |-> quality, Type |-> targetType],
                         codec.process))

\* processImageWithStrategy once the orientation has been handled
processOriented_proxy(settings, globals, codec, oriented, oldImageSize) ==
    IF oriented.err
    THEN ImageProcessingResult_proxy(oriented.data, FALSE, NoSize, "orientation",
                                     oriented.calls)
    ELSE IF oldImageSize.err
    THEN ImageProcessingResult_proxy(oriented.data, FALSE, NoSize, "size",
                                     oriented.calls)
    ELSE processSized_proxy(settings, globals, codec, oriented,
                            ImageSize(oldImageSize.Width, oldImageSize.Height),
                            calculateResizeDimensions_proxy(
                                ImageSize(oldImageSize.Width, oldImageSize.Height),
                                settings))

processWorking_proxy(settings, globals, codec, oriented) ==
    processOriented_proxy(settings, globals, codec, oriented, Size(oriented.image))

processImageWithStrategy_proxy(originalData, settings, globals, codec) ==
    IF SkipsForTransparency(globals.CONVERT_TO_FORMAT, originalData)
    THEN ImageProcessingResult_proxy(originalData, FALSE, NoSize, "nil", <<>>)
    ELSE processWorking_proxy(settings, globals, codec,
                              handleEXIFOrientation(originalData, codec))

(***************************************************************************)
(* The environment and NewConfigFromEnv.  A value of the environment is a  *)
(* text, a sequence of characters; os.Getenv answers the empty text for a  *)
(* variable that is not set.                                               *)
(***************************************************************************)
DEFAULT_IMG_MAX_WIDTH == 1920
DEFAULT_IMG_MAX_HEIGHT == 1080
DEFAULT_IMG_MAX_NARROW_SIDE == 0
DEFAULT_NORMALIZE_EXTENSIONS == 1
DEFAULT_CONVERT_TO_FORMAT == ""

\* the names of the settings the program declares.  NewConfigFromEnv reads
\* every one of them but IMG_MAX_PIXELS: ImgMaxPixels is derived
EnvNames ==
    {"IMG_MAX_WIDTH", "IMG_MAX_HEIGHT", "IMG_MAX_NARROW_SIDE", "JPEG_QUALITY",
     "WEBP_QUALITY", "NORMALIZE_EXTENSIONS", "UPLOAD_MAX_SIZE", "IMG_MAX_PIXELS",
     "FORWARD_DESTINATION", "FILE_UPLOAD_FIELD", "LISTEN_PATH",
     "CONVERT_TO_FORMAT"}

DigitChars == <<"0", "1", "2", "3", "4", "5", "6", "7", "8", "9">>

IsDigit(c) == \E i \in DOMAIN DigitChars : DigitChars[i] = c

DigitValue(c) == (CHOOSE i \in DOMAIN DigitChars : DigitChars[i] = c) - 1

RECURSIVE DecimalValue(_)
DecimalValue(digits) ==
    IF digits = <<>> THEN 0
    ELSE 10 * DecimalValue(SubSeq(digits, 1, Len(digits) - 1))
         + DigitValue(digits[Len(digits)])

\* the digits without their leading zeros
RECURSIVE Significant(_)
Significant(digits) ==
    IF digits # <<>> /\ digits[1] = "0" THEN Significant(Tail(digits)) ELSE digits

\* the decimal a is larger than the decimal b (neither has a leading zero)
RECURSIVE DecimalGreater(_, _)
DecimalGreater(a, b) ==
    IF Len(a) # Len(b) THEN Len(a) > Len(b)
    ELSE IF a = <<>> THEN FALSE
    ELSE IF a[1] # b[1] THEN DigitValue(a[1]) > DigitValue(b[1])
    ELSE DecimalGreater(Tail(a), Tail(b))

\* 1<<63 - 1, the largest int (and int64) of a 64-bit build, and 1<<63,
\* the magnitude of the smallest
MaxInt64Digits ==
    <<"9", "2", "2", "3", "3", "7", "2", "0", "3", "6", "8", "5", "4", "7",
      "7", "5", "8", "0", "7">>

MinInt64Digits ==
    <<"9", "2", "2", "3", "3", "7", "2", "0", "3", "6", "8", "5", "4", "7",
      "7", "5", "8", "0", "8">>

OutOfRange(negative, digits) ==
    DecimalGreater(Significant(digits),
                   IF negative THEN MinInt64Digits ELSE MaxInt64Digits)

\* strconv.Atoi and strconv.ParseInt(v, 10, 64): an optional sign, then
\* decimal digits and nothing else (a syntax error otherwise); a value
\* outside the 64 bits of the type is a range error.  The value of a text
\* inside the range is computed in TLC's 32-bit integers, and the texts
\* drawn inside the range are short.
Atoi(v) ==
    LET signed == v # <<>> /\ v[1] \in {"+", "-"}
        digits == IF signed THEN Tail(v) ELSE v
    IN  IF digits = <<>> \/ \E i \in DOMAIN digits : ~IsDigit(digits[i])
        THEN [err |-> TRUE, n |-> 0]
        ELSE IF OutOfRange(signed /\ v[1] = "-", digits)
        THEN [err |-> TRUE, n |-> 0]
        ELSE [err |-> FALSE,
              n |-> IF signed /\ v[1] = "-" THEN 0 - DecimalValue(digits)
                    ELSE DecimalValue(digits)]

\* unicode.IsSpace: the space, the tab, the line feed, the carriage return,
\* the form feed, and the characters written here by their names or code
\* points: the vertical tab U+000B, the next line U+0085, the no-break
\* space U+00A0 and the spaces and separators beyond Latin-1
WhiteSpace ==
    {" ", "\t", "\n", "\r", "\f", "VT", "NEL", "NBSP",
     "U+1680", "U+2000", "U+2001", "U+2002", "U+2003", "U+2004", "U+2005",
     "U+2006", "U+2007", "U+2008", "U+2009", "U+200A", "U+2028", "U+2029",
     "U+202F", "U+205F", "U+3000"}

\* strings.TrimSpace: the text without its leading and trailing white space
RECURSIVE TrimSpace(_)
TrimSpace(v) ==
    IF v = <<>> THEN v
    ELSE IF v[1] \in WhiteSpace THEN TrimSpace(Tail(v))
    ELSE IF v[Len(v)] \in WhiteSpace THEN TrimSpace(SubSeq(v, 1, Len(v) - 1))
    ELSE v

LowerChars ==
    <<"a", "b", "c", "d", "e", "f", "g", "h", "i", "j", "k", "l", "m",
      "n", "o", "p", "q", "r", "s", "t", "u", "v", "w", "x", "y", "z">>

UpperChars ==
    <<"A", "B", "C", "D", "E", "F", "G", "H", "I", "J", "K", "L", "M",
      "N", "O", "P", "Q", "R", "S", "T", "U", "V", "W", "X", "Y", "Z">>

\* the letters beyond ASCII the texts draw on, written by code point, and
\* what unicode.ToUpper makes of each: the micro sign becomes the Greek
\* capital mu, e acute its capital, y diaeresis its capital, the dotless i
\* the letter I and the long s the letter S
OtherLowerChars == <<"U+00B5", "U+00E9", "U+00FF", "U+0131", "U+017F">>

OtherUpperChars == <<"U+039C", "U+00C9", "U+0178", "I", "S">>

\* the place of a character in a list of characters, 0 when it is not there
Place(chars, c) ==
    IF \E k \in DOMAIN chars : chars[k] = c
    THEN CHOOSE k \in DOMAIN chars : chars[k] = c
    ELSE 0

\* unicode.ToUpper on one character
UpperOf(c) ==
    IF Place(LowerChars, c) # 0 THEN UpperChars[Place(LowerChars, c)]
    ELSE IF Place(OtherLowerChars, c) # 0
    THEN OtherUpperChars[Place(OtherLowerChars, c)]
    ELSE c

\* strings.ToUpper: every letter becomes its upper case and nothing else
\* changes
ToUpper(v) == [i \in DOMAIN v |-> UpperOf(v[i])]

TextJPG == <<"J", "P", "G">>

TextJPEG == <<"J", "P", "E", "G">>

TextWEBP == <<"W", "E", "B", "P">>

DefaultForwardDestination == <<"h", "t", "t", "p", "s", ":", "/", "/", "h", "t", "t", "p", "b", "i", "n", ".", "o", "r", "g", "/", "a", "n", "y", "t", "h", "i", "n", "g">>

DefaultFileUploadField == <<"a", "s", "s", "e", "t", "D", "a", "t", "a">>

DefaultListenPath == <<"/", "a", "p", "i", "/", "a", "s", "s", "e", "t", "s">>

DefaultUploadMaxSize == 100 * Pow2(20)

\* the struct NewConfigFromEnv starts from
DefaultConfig ==
    [ImgMaxWidth |-> DEFAULT_IMG_MAX_WIDTH,
     ImgMaxHeight |-> DEFAULT_IMG_MAX_HEIGHT,
     ImgMaxNarrowSide |-> DEFAULT_IMG_MAX_NARROW_SIDE,
     JpegQuality |-> DEFAULT_JPEG_QUALITY,
     WebpQuality |-> DEFAULT_WEBP_QUALITY,
     NormalizeExt |-> (DEFAULT_NORMALIZE_EXTENSIONS = 1),
     UploadMaxSize |-> DefaultUploadMaxSize,
     ImgMaxPixels |-> 0,
     ForwardDestination |-> DefaultForwardDestination,
     FileUploadField |-> DefaultFileUploadField,
     ListenPath |-> DefaultListenPath,
     ConvertToFormat |-> DEFAULT_CONVERT_TO_FORMAT]

\* the tests "n > 0", "n >= 0", "n >= 1 && n <= 100", "n == 0 || n == 1"
ValidPositive(n) == n > 0

ValidNarrowSide(n) == n >= 0

\* a variant of the quality test that lets 0 through
ValidQualityFromZero(n) == n >= 0 /\ n <= 100

ValidQuality(n) == n >= 1 /\ n <= 100

ValidSwitch(n) == n = 0 \/ n = 1

\* "if v != "" { if n, err := Atoi(v); err == nil && valid { field = n } }"
IntSetting(v, valid, current) ==
    IF v = <<>> \/ Atoi(v).err \/ ~valid THEN current ELSE Atoi(v).n

StringSetting(v, current) == IF v = <<>> THEN current ELSE v

\* "JPG" is taken for "JPEG" before the format is tested
FormatSetting(v, current) ==
    LET upper == ToUpper(TrimSpace(v))
        normalizedFormat == IF upper = TextJPG THEN TextJPEG ELSE upper
    IN  IF v = <<>> THEN current
        ELSE IF normalizedFormat = <<>> THEN ""
        ELSE IF normalizedFormat = TextJPEG THEN "JPEG"
        ELSE IF normalizedFormat = TextWEBP THEN "WEBP"
        ELSE current

NewConfigFromEnv(e) ==
    LET d == DefaultConfig
        n(name) == Atoi(e[name]).n
        width == IntSetting(e["IMG_MAX_WIDTH"],
                            ValidPositive(n("IMG_MAX_WIDTH")), d.ImgMaxWidth)
        height == IntSetting(e["IMG_MAX_HEIGHT"],
                             ValidPositive(n("IMG_MAX_HEIGHT")), d.ImgMaxHeight)
        switch == IntSetting(e["NORMALIZE_EXTENSIONS"],
                             ValidSwitch(n("NORMALIZE_EXTENSIONS")),
                             DEFAULT_NORMALIZE_EXTENSIONS)
    IN  [ImgMaxWidth |-> width,
         ImgMaxHeight |-> height,
         ImgMaxNarrowSide |->
             IntSetting(e["IMG_MAX_NARROW_SIDE"],
                        ValidNarrowSide(n("IMG_MAX_NARROW_SIDE")),
                        d.ImgMaxNarrowSide),
         JpegQuality |->
             IntSetting(e["JPEG_QUALITY"], ValidQuality(n("JPEG_QUALITY")),
                        d.JpegQuality),
         WebpQuality |->
             IntSetting(e["WEBP_QUALITY"], ValidQuality(n("WEBP_QUALITY")),
                        d.WebpQuality),
         NormalizeExt |-> (switch = 1),
         UploadMaxSize |->
             IntSetting(e["UPLOAD_MAX_SIZE"],
                        ValidPositive(n("UPLOAD_MAX_SIZE")), d.UploadMaxSize),
         ImgMaxPixels |-> width * height,
         ForwardDestination |->
             StringSetting(e["FORWARD_DESTINATION"], d.ForwardDestination),
         FileUploadField |->
             StringSetting(e["FILE_UPLOAD_FIELD"], d.FileUploadField),
         ListenPath |-> StringSetting(e["LISTEN_PATH"], d.ListenPath),
         ConvertToFormat |->
             FormatSetting(e["CONVERT_TO_FORMAT"], d.ConvertToFormat)]

(***************************************************************************)
(* initializeSettings of proxy.go: the global settings proxyHandler and    *)
(* its pipeline read, one entry per name (settingsInt, settingsInt64 and   *)
(* settingsString have no name in common).  Only the qualities and the     *)
(* extension switch are tested against a range; IMG_MAX_PIXELS is read     *)
(* from the environment, and "JPG" is no format.                           *)
(***************************************************************************)
\* an entry of settingsInt
IntKey(v, valid, default) ==
    IF v = <<>> \/ Atoi(v).err \/ ~valid THEN default ELSE Atoi(v).n

\* an entry of settingsInt64: whatever ParseInt accepts
Int64Key(v, default) == IF v = <<>> \/ Atoi(v).err THEN default ELSE Atoi(v).n

\* the CONVERT_TO_FORMAT entry of settingsString
FormatKey(v, default) ==
    LET normalizedFormat == ToUpper(TrimSpace(v))
    IN  IF v = <<>> THEN default
        ELSE IF normalizedFormat = <<>> THEN ""
        ELSE IF normalizedFormat = TextJPEG THEN "JPEG"
        ELSE IF normalizedFormat = TextWEBP THEN "WEBP"
        ELSE default

initializeSettings(e) ==
    LET n(name) == Atoi(e[name]).n
        width == IntKey(e["IMG_MAX_WIDTH"], TRUE, DEFAULT_IMG_MAX_WIDTH)
        height == IntKey(e["IMG_MAX_HEIGHT"], TRUE, DEFAULT_IMG_MAX_HEIGHT)
    IN  [IMG_MAX_WIDTH |-> width,
         IMG_MAX_HEIGHT |-> height,
         IMG_MAX_NARROW_SIDE |->
             IntKey(e["IMG_MAX_NARROW_SIDE"], TRUE, DEFAULT_IMG_MAX_NARROW_SIDE),
         JPEG_QUALITY |->
             IntKey(e["JPEG_QUALITY"], ValidQuality(n("JPEG_QUALITY")),
                    DEFAULT_JPEG_QUALITY),
         WEBP_QUALITY |->
             IntKey(e["WEBP_QUALITY"], ValidQuality(n("WEBP_QUALITY")),
                    DEFAULT_WEBP_QUALITY),
         NORMALIZE_EXTENSIONS |->
             IntKey(e["NORMALIZE_EXTENSIONS"],
                    ValidSwitch(n("NORMALIZE_EXTENSIONS")),
                    DEFAULT_NORMALIZE_EXTENSIONS),
         UPLOAD_MAX_SIZE |-> Int64Key(e["UPLOAD_MAX_SIZE"], DefaultUploadMaxSize),
         IMG_MAX_PIXELS |-> Int64Key(e["IMG_MAX_PIXELS"], width * height),
         FORWARD_DESTINATION |->
             StringSetting(e["FORWARD_DESTINATION"], DefaultForwardDestination),
         FILE_UPLOAD_FIELD |->
             StringSetting(e["FILE_UPLOAD_FIELD"], DefaultFileUploadField),
         LISTEN_PATH |-> StringSetting(e["LISTEN_PATH"], DefaultListenPath),
         CONVERT_TO_FORMAT |->
             FormatKey(e["CONVERT_TO_FORMAT"], DEFAULT_CONVERT_TO_FORMAT)]

\* the texts a variable of the environment is set to: numbers inside and
\* outside every accepted range, one beyond the 64 bits of the type, texts
\* that are no number (one of them the ideographic space alone), and
\* formats in either case, padded, abbreviated or misspelt with a letter
\* beyond ASCII
EnvTexts ==
    {<<"0">>, <<"1">>, <<"-", "1">>, <<"+", "7">>,
     <<"1", "0", "0">>, <<"1", "0", "1">>, <<"9", "x">>, <<"U+3000">>,
     <<"0">> \o MinInt64Digits,
     <<"J", "P", "E", "G">>, <<"\t", "j", "p", "e", "g", "U+2003">>,
     <<"J", "P", "G">>, <<"w", "e", "b", "p">>, <<"j", "p", "U+00E9", "g">>}

NoEnv == [name \in EnvNames |-> <<>>]

\* the environment in which the variables of S are set as f says
EnvironmentSetting(S, f) ==
    [name \in EnvNames |-> IF name \in S THEN f[name] ELSE <<>>]

\* no configuration has been loaded; no request is being handled
NoConfig == [loaded |-> FALSE]

NoSettings == [initialized |-> FALSE]

NoTasks == <<>>

(***************************************************************************)
(* Requests.  A multipart request carries non-file parts (fields, in body  *)
(* order) followed by one file part, and URL query parameters.  Its body   *)
(* may end before its closing boundary (readable is false), and the        *)
(* temporary file that holds a file part larger than the memory limit may  *)
(* fail to be created, to open or to read (stored).  When a first reader   *)
(* gives up in the middle of the body, ahead is the number of parts behind *)
(* the failing one whose opening boundary it had already taken from the    *)
(* connection into its 4096-byte buffer: a second reader does not see them.*)
(***************************************************************************)
FieldNames == {"k1", "k2"}

\* a field value is written as itself ("a", "b": one byte each), but for
\* the value that is longer than the memory ReadForm grants to all values,
\* which is written by this name
LongValue == "long"

FieldValues == {"a", "b"}
Pairs == [name : FieldNames, value : FieldValues]

\* a form whose first field has the long value
LongForms ==
    {<<[name |-> "k1", value |-> LongValue], [name |-> "k2", value |-> "a"]>>}

SeqsUpTo(S, n) == UNION {[1..k -> S] : k \in 0..n}

\* the file names a client sends: with an extension, and inside a directory
FileNames == {<<"a", ".", "p">>, <<"d", "/", "a">>}
MimeTypes == {"", "image/png"}

\* what the file system does with the temporary file of a file part
Stored == {"ok", "create fails", "open fails", "read fails"}

\* the paths a request comes in on: the listen path, and another
OtherPath == <<"/", "x">>

RequestPaths == {DefaultListenPath, OtherPath}

MultipartRequests(files, names, mimes, uploads, forms, queries) ==
    [multipart : {TRUE}, fileField : files, filename : names, mime : mimes,
     data : uploads, fields : forms, query : queries, readable : {TRUE},
     stored : {"ok"}, ahead : {0}, path : {DefaultListenPath}]

\* the same requests on either path, with a body that is whole or not and a
\* temporary file that is created, opens and reads or not
Troubled(requests) ==
    {[r EXCEPT !.readable = b, !.stored = st, !.path = p] :
        r \in requests, b \in BOOLEAN, st \in Stored, p \in RequestPaths}

\* the same requests with every read-ahead of a reader that gives up
ReadAhead(requests) ==
    {[r EXCEPT !.ahead = a] : r \in requests, a \in 0..MaxFields}

RawRequests ==
    [multipart : {FALSE}, fileField : {""}, filename : {<<>>}, mime : {""},
     data : {NonImage(l) : l \in 1..MaxLen}, fields : {<<>>}, query : {<<>>},
     readable : BOOLEAN, stored : {"ok"}, ahead : {0}, path : RequestPaths]

NoRequest ==
    [multipart |-> FALSE, fileField |-> "", filename |-> <<>>, mime |-> "",
     data |-> NonImage(0), fields |-> <<>>, query |-> <<>>, readable |-> FALSE,
     stored |-> "ok", ahead |-> 0, path |-> <<>>]

(***************************************************************************)
(* Configuration snapshot (Config), read-only after startup, and the       *)
(* global settings of proxy.go, written once by initializeSettings.        *)
(***************************************************************************)
Configs ==
    [ImgMaxWidth : 1..MaxLimit, ImgMaxHeight : 1..MaxLimit,
     ImgMaxNarrowSide : 0..MaxLimit,
     JpegQuality : {DEFAULT_JPEG_QUALITY}, WebpQuality : {DEFAULT_WEBP_QUALITY},
     NormalizeExt : BOOLEAN, UploadMaxSize : {MaxLen - 1},
     ForwardDestination : {DefaultForwardDestination},
     FileUploadField : {"assetData"}, ListenPath : {DefaultListenPath},
     ConvertToFormat : {"", "JPEG", "WEBP"}]

PlainConfigs == {c \in Configs : c.ConvertToFormat = "" /\ c.NormalizeExt}

\* initializeSettings stores the width as it was parsed: 0 is one of them
Settings ==
    {[s EXCEPT !.IMG_MAX_PIXELS = s.IMG_MAX_WIDTH * s.IMG_MAX_HEIGHT] :
        s \in [IMG_MAX_WIDTH : 0..(MaxLimit + 1), IMG_MAX_HEIGHT : 1..MaxLimit,
               IMG_MAX_NARROW_SIDE : {DEFAULT_IMG_MAX_NARROW_SIDE},
               JPEG_QUALITY : {DEFAULT_JPEG_QUALITY},
               WEBP_QUALITY : {DEFAULT_WEBP_QUALITY},
               NORMALIZE_EXTENSIONS : {DEFAULT_NORMALIZE_EXTENSIONS},
               UPLOAD_MAX_SIZE : {MaxLen - 1}, IMG_MAX_PIXELS : {0},
               FORWARD_DESTINATION : {DefaultForwardDestination},
               FILE_UPLOAD_FIELD : {"assetData"},
               LISTEN_PATH : {DefaultListenPath},
               CONVERT_TO_FORMAT : {"", "JPEG", "WEBP"}]}

PlainSettings == {s \in Settings : s.CONVERT_TO_FORMAT = ""}

\* forward destinations that are no URL (a port without scheme and host, a
\* port that is no number) and one that no request can be sent to
BadDestination == <<":", "6", "7", "4", "3">>

BadPort == <<"h", "t", "t", "p", ":", "/", "/", "h", ":", "x", "/", "p">>

OtherScheme == <<"f", "t", "p", ":", "/", "/", "h", "/", "p">>

\* the same settings with those destinations
Misdirected(settings) ==
    {[s EXCEPT !.FORWARD_DESTINATION = d] :
        s \in settings, d \in {BadDestination, BadPort, OtherScheme}}

(***************************************************************************)
(* mime/multipart and net/http form parsing as reformatMultipart uses it.  *)
(***************************************************************************)
ValuesOf(pairs, n) ==
    LET sel == SelectSeq(pairs, LAMBDA p : p.name = n)
    IN  [i \in 1..Len(sel) |-> sel[i].value]

NamesOf(pairs) == {pairs[i].name : i \in DOMAIN pairs}

\* the maxMemory of r.FormFile when the form has not been parsed
defaultMaxMemory == 32 * Pow2(20)

\* ReadForm: "Reserve an additional 10 MB for non-file parts"
ValueMemory == 10 * Pow2(20)

\* the bytes of a field value
ValueLen(value) == IF value = LongValue THEN ValueMemory + MaxLen + 1 ELSE 1

\* maxValueBytes as ReadForm starts with it (a sum that is not positive
\* while maxMemory is not negative takes an overflow of int64, which the
\* limits of this model do not reach)
ValueBudget(maxMemory) ==
    IF maxMemory + ValueMemory <= 0 THEN 0 ELSE maxMemory + ValueMemory

RECURSIVE StripSeparators(_)
\* the path without its trailing separators
StripSeparators(path) ==
    IF path # <<>> /\ IsPathSeparator(path[Len(path)])
    THEN StripSeparators(SubSeq(path, 1, Len(path) - 1))
    ELSE path

\* filepath.Base: the last element of the path; "." for the empty path and
\* "/" for a path of separators alone
Base(path) ==
    LET stripped == StripSeparators(path)
    IN  IF path = <<>> THEN <<".">>
        ELSE IF stripped = <<>> THEN <<"/">>
        ELSE SubSeq(stripped, LastIndexOf(stripped, "/", Len(stripped)) + 1,
                    Len(stripped))

\* Part.FileName: the filename parameter of the part without its directory
FileName(filename) == IF filename = <<>> THEN <<>> ELSE Base(filename)

\* the parts of the body in their order
PartsOf(r) ==
    [i \in 1..(Len(r.fields) + 1) |->
        IF i <= Len(r.fields)
        THEN [name |-> r.fields[i].name, filename |-> <<>>, mime |-> "",
              content |-> r.fields[i].value, len |-> ValueLen(r.fields[i].value),
              stored |-> "ok"]
        ELSE [name |-> r.fileField, filename |-> r.filename, mime |-> r.mime,
              content |-> r.data, len |-> r.data.len, stored |-> r.stored]]

\* multipart.FileHeader
FileHeader(p, tmpfile) ==
    [name |-> p.name, Filename |-> FileName(p.filename), ContentType |-> p.mime,
     content |-> p.content, tmpfile |-> tmpfile, stored |-> p.stored]

\* the multipart.Form of a body without parts; at is the part the reader
\* gave up on
NoParts == [err |-> FALSE, at |-> 0, Value |-> <<>>, File |-> <<>>]

\* what io.CopyN(&b, p, limit + 1) copies of a part
Copied(len, limit) == Max(0, Min(len, limit + 1))

\* multipart.Reader.ReadForm from part i on.  A part without a name is
\* skipped; a part without a filename is a value, and the values together
\* may take maxValueBytes; a file part that does not fit in what is left of
\* maxMemory goes to a temporary file.  An error discards the form.
RECURSIVE readForm(_, _, _, _, _, _)
readForm(parts, i, closed, maxMemory, maxValueBytes, form) ==
    IF i > Len(parts)
    THEN IF closed THEN form ELSE [NoParts EXCEPT !.err = TRUE, !.at = i]
    ELSE IF parts[i].name = ""
    THEN readForm(parts, i + 1, closed, maxMemory, maxValueBytes, form)
    ELSE IF FileName(parts[i].filename) = <<>>
    THEN IF maxValueBytes - Copied(parts[i].len, maxValueBytes) < 0
         THEN [NoParts EXCEPT !.err = TRUE, !.at = i]
         ELSE readForm(parts, i + 1, closed, maxMemory,
                       maxValueBytes - Copied(parts[i].len, maxValueBytes),
                       [form EXCEPT !.Value =
                           Append(@, [name |-> parts[i].name,
                                      value |-> parts[i].content])])
    ELSE IF Copied(parts[i].len, maxMemory) > maxMemory
    THEN IF parts[i].stored = "create fails"
         THEN [NoParts EXCEPT !.err = TRUE, !.at = i]
         ELSE readForm(parts, i + 1, closed, maxMemory, maxValueBytes,
                       [form EXCEPT !.File = Append(@, FileHeader(parts[i], TRUE))])
    ELSE readForm(parts, i + 1, closed,
                  maxMemory - Copied(parts[i].len, maxMemory),
                  maxValueBytes - Copied(parts[i].len, maxMemory),
                  [form EXCEPT !.File = Append(@, FileHeader(parts[i], FALSE))])

\* r.ParseMultipartForm(maxMemory) on the body from part i on
ParseMultipartForm(r, i, maxMemory) ==
    readForm(PartsOf(r), i, r.readable, maxMemory, ValueBudget(maxMemory), NoParts)

\* r.MultipartForm as r.FormFile leaves it.  reformatMultipart ignores the
\* error of its own call of ParseMultipartForm; after an error FormFile
\* finds no form and parses what is left of the body with defaultMaxMemory:
\* what is left of the failing part is skipped as a preamble.
MultipartForm(r, maxMemory) ==
    LET first == ParseMultipartForm(r, 1, maxMemory)
    IN  IF first.err
        THEN ParseMultipartForm(r, first.at + 1 + r.ahead, defaultMaxMemory)
        ELSE first

\* r.Form as the loop of reformatMultipart finds it: per name, the URL
\* query values followed by the values of the form that was parsed
Form(r, maxMemory) ==
    LET values == MultipartForm(r, maxMemory).Value
    IN  [n \in NamesOf(r.query) \cup NamesOf(values) |->
            ValuesOf(r.query, n) \o ValuesOf(values, n)]

\* url.Values.Get: the first value of the key, "" when there is none
Get(form, key) ==
    IF key \in DOMAIN form /\ Len(form[key]) > 0 THEN form[key][1] ELSE ""

\* no file was handed over
NoFile ==
    [err |-> TRUE, Filename |-> <<>>, ContentType |-> "", bytes |-> NonImage(0),
     readErr |-> FALSE]

\* FileHeader.Open on the first file part under the name, and whether
\* io.ReadAll on the file that was opened fails
Open(fhs) ==
    IF fhs[1].tmpfile /\ fhs[1].stored = "open fails" THEN NoFile
    ELSE [err |-> FALSE, Filename |-> fhs[1].Filename,
          ContentType |-> fhs[1].ContentType, bytes |-> fhs[1].content,
          readErr |-> fhs[1].tmpfile /\ fhs[1].stored = "read fails"]

\* r.FormFile(name) after r.ParseMultipartForm(maxMemory): the first file
\* part under that name of the form that was parsed.  It fails when neither
\* parse succeeded, when there is no such part, and when the part's
\* temporary file cannot be opened.
FormFile(r, name, maxMemory) ==
    LET form == MultipartForm(r, maxMemory)
        fhs == SelectSeq(form.File, LAMBDA fh : fh.name = name)
    IN  IF form.err \/ fhs = <<>> THEN NoFile ELSE Open(fhs)

\* the orders in which Go may range over a map with these keys
Orders(keys) ==
    {o \in [1..Cardinality(keys) -> keys] :
        \A i, j \in DOMAIN o : i # j => o[i] # o[j]}

(***************************************************************************)
(* reformatMultipart: the outbound body is a sequence of parts, or an      *)
(* error.  order is the iteration order of r.Form.                         *)
(***************************************************************************)
FieldPart(name, value) == [kind |-> "field", name |-> name, value |-> value]

FilePart(name, filename, mimeType, data) ==
    [kind |-> "file", name |-> name, filename |-> filename,
     mimeType |-> mimeType, data |-> data]

SettingsOf(c) ==
    [MaxWidth |-> c.ImgMaxWidth, MaxHeight |-> c.ImgMaxHeight,
     MaxNarrowSide |-> c.ImgMaxNarrowSide, JpegQuality |-> c.JpegQuality,
     WebpQuality |-> c.WebpQuality, ConvertToFormat |-> c.ConvertToFormat]

NoResult == ImageProcessingResult(NonImage(0), FALSE, FALSE, NoSize, "not run", <<>>)

\* the declared Content-Type of the uploaded part, or the binary default
OriginalMime(handler) ==
    IF handler.ContentType = "" THEN DEFAULT_MIME_TYPE ELSE handler.ContentType

\* a filename decided by the configured format alone, compressed or not
FinalFilenameByConfig(wasImageProcessed, actuallyCompressed, c, handler) ==
    IF c.ConvertToFormat = "JPEG" THEN changeExtensionToJPG(handler.Filename)
    ELSE IF c.ConvertToFormat = "WEBP" THEN changeExtensionToWebP(handler.Filename)
    ELSE handler.Filename

\* the filename / MIME type decision of reformatMultipart
FinalFilename(wasImageProcessed, actuallyCompressed, c, handler) ==
    IF wasImageProcessed /\ actuallyCompressed
    THEN IF c.ConvertToFormat = "JPEG"
         THEN IF c.NormalizeExt THEN changeExtensionToJPG(handler.Filename)
              ELSE handler.Filename
         ELSE IF c.ConvertToFormat = "WEBP"
         THEN IF c.NormalizeExt THEN changeExtensionToWebP(handler.Filename)
              ELSE handler.Filename
         ELSE handler.Filename
    ELSE handler.Filename

\* a MIME type decided by the configured format whenever processing succeeded
FinalMimeTypeByConfig(wasImageProcessed, actuallyCompressed, c, handler) ==
    IF wasImageProcessed /\ c.ConvertToFormat # ""
    THEN IF c.ConvertToFormat = "WEBP" THEN WEBP_MIME_TYPE ELSE JPEG_MIME_TYPE
    ELSE OriginalMime(handler)

FinalMimeType(wasImageProcessed, actuallyCompressed, c, handler) ==
    IF wasImageProcessed /\ actuallyCompressed
    THEN IF c.ConvertToFormat = "WEBP" THEN WEBP_MIME_TYPE ELSE JPEG_MIME_TYPE
    ELSE OriginalMime(handler)

\* a reconstructor that gives up when the image processing failed
reformatFailsOnProcessingError(handler, result) ==
    handler.err \/ handler.readErr \/ result.ProcessingError # "nil"

\* reformatMultipart returns an error when FormFile fails and when the
\* file cannot be read; an error of the image processing is logged and the
\* upload kept
reformatFails(handler, result) == handler.err \/ handler.readErr

\* the bytes of the file part were read: the image processing is run
FileRead(handler) == ~handler.err /\ ~handler.readErr

\* a reconstructor that emits the result's bytes whatever the error
reformatProcessedTrusting(r, c, order, handler, result) ==
    LET form == Form(r, c.UploadMaxSize)
        wasImageProcessed == result.ProcessingError = "nil"
        actuallyCompressed == wasImageProcessed /\ result.WasCompressed
        byteContainer == result.ProcessedData
        fieldParts == [i \in 1..Len(order) |-> FieldPart(order[i], Get(form, order[i]))]
    IN  IF reformatFails(handler, result)
        THEN [err |-> TRUE, contentType |-> "", body |-> <<>>,
              result |-> IF FileRead(handler) THEN result ELSE NoResult]
        ELSE [err |-> FALSE, contentType |-> "multipart/form-data",
              body |-> Append(fieldParts,
                              FilePart(c.FileUploadField,
                                       FinalFilename(wasImageProcessed,
                                                     actuallyCompressed, c, handler),
                                       FinalMimeType(wasImageProcessed,
                                                     actuallyCompressed, c, handler),
                                       byteContainer)),
              result |-> result]

\* reformatMultipart once the file part has been read and processed
reformatProcessed(r, c, order, handler, result) ==
    LET form == Form(r, c.UploadMaxSize)
        wasImageProcessed == result.ProcessingError = "nil"
        actuallyCompressed == wasImageProcessed /\ result.WasCompressed
        byteContainer == IF wasImageProcessed THEN result.ProcessedData
                         ELSE handler.bytes
        fieldParts == [i \in 1..Len(order) |-> FieldPart(order[i], Get(form, order[i]))]
    IN  IF reformatFails(handler, result)
        THEN [err |-> TRUE, contentType |-> "", body |-> <<>>,
              result |-> IF FileRead(handler) THEN result ELSE NoResult]
        ELSE [err |-> FALSE, contentType |-> "multipart/form-data",
              body |-> Append(fieldParts,
                              FilePart(c.FileUploadField,
                                       FinalFilename(wasImageProcessed,
                                                     actuallyCompressed, c, handler),
                                       FinalMimeType(wasImageProcessed,
                                                     actuallyCompressed, c, handler),
                                       byteContainer)),
              result |-> result]

reformatFile(r, c, codec, order, handler) ==
    reformatProcessed(r, c, order, handler,
                      IF FileRead(handler)
                      THEN processImageWithStrategy(handler.bytes, SettingsOf(c),
                                                    codec)
                      ELSE NoResult)

reformatMultipart(r, c, codec, order) ==
    reformatFile(r, c, codec, order,
                 FormFile(r, c.FileUploadField, c.UploadMaxSize))

(***************************************************************************)
(* reformatMultipart of proxy.go, on the global settings.                  *)
(***************************************************************************)
SettingsOf_proxy(globals) ==
    [MaxWidth |-> globals.IMG_MAX_WIDTH, MaxHeight |-> globals.IMG_MAX_HEIGHT,
     MaxNarrowSide |-> globals.IMG_MAX_NARROW_SIDE,
     JpegQuality |-> globals.JPEG_QUALITY]

FinalFilename_proxy(wasImageProcessed, actuallyCompressed, globals, handler) ==
    IF wasImageProcessed /\ actuallyCompressed
    THEN IF globals.CONVERT_TO_FORMAT = "JPEG"
         THEN IF globals.NORMALIZE_EXTENSIONS = 1
              THEN changeExtensionToJPG(handler.Filename)
              ELSE handler.Filename
         ELSE IF globals.CONVERT_TO_FORMAT = "WEBP"
         THEN IF globals.NORMALIZE_EXTENSIONS = 1
              THEN changeExtensionToWebP(handler.Filename)
              ELSE handler.Filename
         ELSE handler.Filename
    ELSE handler.Filename

FinalMimeType_proxy(wasImageProcessed, actuallyCompressed, globals, handler) ==
    IF wasImageProcessed /\ actuallyCompressed
    THEN IF globals.CONVERT_TO_FORMAT = "WEBP" THEN WEBP_MIME_TYPE
         ELSE JPEG_MIME_TYPE
    ELSE OriginalMime(handler)

\* reformatMultipart once the file part has been read and processed
reformatProcessed_proxy(r, globals, order, handler, result) ==
    LET form == Form(r, globals.UPLOAD_MAX_SIZE)
        wasImageProcessed == result.ProcessingError = "nil"
        actuallyCompressed == wasImageProcessed /\ result.WasCompressed
        byteContainer == IF wasImageProcessed THEN result.ProcessedData
                         ELSE handler.bytes
        fieldParts == [i \in 1..Len(order) |-> FieldPart(order[i], Get(form, order[i]))]
    IN  IF reformatFails(handler, result)
        THEN [err |-> TRUE, contentType |-> "", body |-> <<>>,
              result |-> IF FileRead(handler) THEN result ELSE NoResult_proxy]
        ELSE [err |-> FALSE, contentType |-> "multipart/form-data",
              body |-> Append(fieldParts,
                              FilePart(globals.FILE_UPLOAD_FIELD,
                                       FinalFilename_proxy(wasImageProcessed,
                                                           actuallyCompressed,
                                                           globals, handler),
                                       FinalMimeType_proxy(wasImageProcessed,
                                                           actuallyCompressed,
                                                           globals, handler),
                                       byteContainer)),
              result |-> result]

reformatFile_proxy(r, globals, codec, order, handler) ==
    reformatProcessed_proxy(r, globals, order, handler,
                            IF FileRead(handler)
                            THEN processImageWithStrategy_proxy(
                                     handler.bytes, SettingsOf_proxy(globals),
                                     globals, codec)
                            ELSE NoResult_proxy)

reformatMultipart_proxy(r, globals, codec, order) ==
    reformatFile_proxy(r, globals, codec, order,
                       FormFile(r, globals.FILE_UPLOAD_FIELD,
                                globals.UPLOAD_MAX_SIZE))

(***************************************************************************)
(* net/url as http.NewRequest uses it on the forward destination.  The     *)
(* texts are free of "%".                                                  *)
(***************************************************************************)
IsLetter(c) ==
    \E k \in DOMAIN LowerChars : c = LowerChars[k] \/ c = UpperChars[k]

\* getScheme: the text before the first colon when it is a scheme; a colon
\* in the first place is an error ("missing protocol scheme")
RECURSIVE getScheme(_, _)
getScheme(rawURL, i) ==
    IF i > Len(rawURL) THEN [err |-> FALSE, scheme |-> <<>>, rest |-> rawURL]
    ELSE IF IsLetter(rawURL[i]) THEN getScheme(rawURL, i + 1)
    ELSE IF IsDigit(rawURL[i]) \/ rawURL[i] \in {"+", "-", "."}
    THEN IF i = 1 THEN [err |-> FALSE, scheme |-> <<>>, rest |-> rawURL]
         ELSE getScheme(rawURL, i + 1)
    ELSE IF rawURL[i] = ":"
    THEN IF i = 1 THEN [err |-> TRUE, scheme |-> <<>>, rest |-> <<>>]
         ELSE [err |-> FALSE, scheme |-> SubSeq(rawURL, 1, i - 1),
               rest |-> SubSeq(rawURL, i + 1, Len(rawURL))]
    ELSE [err |-> FALSE, scheme |-> <<>>, rest |-> rawURL]

\* strings.Index for one character: its first place in the text, 0 if none
Index(text, c) ==
    IF \E i \in DOMAIN text : text[i] = c
    THEN CHOOSE i \in DOMAIN text :
             text[i] = c /\ \A j \in 1..(i - 1) : text[j] # c
    ELSE 0

HasPrefix(text, prefix) ==
    Len(text) >= Len(prefix) /\ SubSeq(text, 1, Len(prefix)) = prefix

\* strings.Cut at the first c: the text before it (the whole text when c is
\* not there) and the text after it
Before(text, c) ==
    IF Index(text, c) = 0 THEN text ELSE SubSeq(text, 1, Index(text, c) - 1)

After(text, c) ==
    IF Index(text, c) = 0 THEN <<>>
    ELSE SubSeq(text, Index(text, c) + 1, Len(text))

\* stringContainsCTLByte: a byte below 0x20, or 0x7f
ControlChars == {"\t", "\n", "\r", "\f", "VT", "NUL", "DEL"}

\* the characters of more than one byte, written by name or code point:
\* none of their bytes is below 0x80
BeyondASCII ==
    (WhiteSpace \ ({" "} \cup ControlChars))
    \cup {OtherLowerChars[k] : k \in 1..3} \cup {"U+0131", "U+017F"}
    \cup {OtherUpperChars[k] : k \in 1..3}

\* the ASCII characters a host may hold unescaped (shouldEscape, encodeHost)
HostChars ==
    {"!", "$", "&", "'", "(", ")", "*", "+", ",", ";", "=", ":", "[", "]",
     "<", ">", "\"", "-", "_", ".", "~"}

\* the characters of a user name and password (validUserinfo)
UserinfoChars ==
    {"-", ".", "_", ":", "~", "!", "$", "&", "'", "(", ")", "*", "+", ",", ";",
     "=", "@"}

\* validOptionalPort: nothing, or a colon and digits
validOptionalPort(port) ==
    \/ port = <<>>
    \/ port[1] = ":" /\ \A i \in 2..Len(port) : IsDigit(port[i])

\* parseHost fails on a bracket that is not closed, on a port that is no
\* number and on a character that a host may not hold
parseHost(host) ==
    LET close == LastIndexOf(host, "]", Len(host))
        colon == LastIndexOf(host, ":", Len(host))
    IN  [err |->
            \/ IF HasPrefix(host, <<"[">>)
               THEN \/ close = 0
                    \/ ~validOptionalPort(SubSeq(host, close + 1, Len(host)))
               ELSE /\ colon # 0
                    /\ ~validOptionalPort(SubSeq(host, colon, Len(host)))
            \/ \E i \in DOMAIN host :
                  /\ ~IsLetter(host[i])
                  /\ ~IsDigit(host[i])
                  /\ host[i] \notin HostChars
                  /\ host[i] \notin BeyondASCII,
         host |-> host]

\* parseAuthority: the host behind the last "@", and user information that
\* holds valid characters only
parseAuthority(authority) ==
    LET i == LastIndexOf(authority, "@", Len(authority))
        userinfo == SubSeq(authority, 1, i - 1)
        parsed == parseHost(SubSeq(authority, i + 1, Len(authority)))
    IN  [err |->
            \/ parsed.err
            \/ /\ i # 0
               /\ \E k \in DOMAIN userinfo :
                     /\ ~IsLetter(userinfo[k])
                     /\ ~IsDigit(userinfo[k])
                     /\ userinfo[k] \notin UserinfoChars,
         host |-> parsed.host]

\* strings.ToLower on a scheme, whose letters are ASCII
ToLower(v) ==
    [i \in DOMAIN v |->
        IF Place(UpperChars, v[i]) # 0 THEN LowerChars[Place(UpperChars, v[i])]
        ELSE v[i]]

NoURL == [err |-> TRUE, Scheme |-> <<>>, Host |-> <<>>, Path |-> <<>>,
          RawQuery |-> <<>>]

\* url.Parse once the fragment is cut off and the scheme split off
parse(scheme, rest, query) ==
    LET segment == Before(rest, "/")
        behind == SubSeq(rest, 3, Len(rest))
        hasAuthority == /\ HasPrefix(rest, <<"/", "/">>)
                        /\ (scheme # <<>> \/ ~HasPrefix(rest, <<"/", "/", "/">>))
        authority == parseAuthority(Before(behind, "/"))
    IN  IF ~HasPrefix(rest, <<"/">>) /\ scheme # <<>>
        THEN [err |-> FALSE, Scheme |-> ToLower(scheme), Host |-> <<>>,
              Path |-> <<>>, RawQuery |-> query]
        ELSE IF ~HasPrefix(rest, <<"/">>) /\ Index(segment, ":") # 0
        THEN NoURL
        ELSE IF hasAuthority
        THEN IF authority.err THEN NoURL
             ELSE [err |-> FALSE, Scheme |-> ToLower(scheme),
                   Host |-> authority.host,
                   Path |-> IF Index(behind, "/") = 0 THEN <<>>
                            ELSE SubSeq(behind, Index(behind, "/"), Len(behind)),
                   RawQuery |-> query]
        ELSE [err |-> FALSE, Scheme |-> ToLower(scheme), Host |-> <<>>,
              Path |-> rest, RawQuery |-> query]

\* url.Parse: an error, or the URL's scheme, host, path and query
Parse(rawURL) ==
    LET u == Before(rawURL, "#")
        parsed == getScheme(u, 1)
        forceQuery == /\ HasSuffix(parsed.rest, <<"?">>)
                      /\ Index(parsed.rest, "?") = Len(parsed.rest)
    IN  IF \E i \in DOMAIN u : u[i] \in ControlChars THEN NoURL
        ELSE IF u = <<"*">>
        THEN [err |-> FALSE, Scheme |-> <<>>, Host |-> <<>>, Path |-> u,
              RawQuery |-> <<>>]
        ELSE IF parsed.err THEN NoURL
        ELSE IF forceQuery
        THEN parse(parsed.scheme, SubSeq(parsed.rest, 1, Len(parsed.rest) - 1),
                   <<>>)
        ELSE parse(parsed.scheme, Before(parsed.rest, "?"),
                   After(parsed.rest, "?"))

(***************************************************************************)
(* proxyHandler.  One request is followed from its arrival to the return   *)
(* of its handler: the body is reconstructed (or read) and the outbound    *)
(* request is built and sent; the downstream answers or fails; the handler *)
(* returns.  Requests handled at the same time are the matter of the       *)
(* concurrent specification further down.                                  *)
(***************************************************************************)
StatusBadRequest == 400
StatusFailedDependency == 424

\* what client.Do returns: an error, or the downstream's response with any
\* status the downstream chooses
DownstreamStatuses == {200, 400, 500}

DownstreamOutcomes ==
    {[err |-> TRUE, status |-> 0]}
    \cup {[err |-> FALSE, status |-> st] : st \in DownstreamStatuses}

\* the transport sends to http and https URLs that name a host, and
\* returns an error for any other
Sendable(u) ==
    /\ u.Scheme \in {<<"h", "t", "t", "p">>, <<"h", "t", "t", "p", "s">>}
    /\ u.Host # <<>>

\* what client.Do may return for a request to the destination
DoOutcomes(destination) ==
    {down \in DownstreamOutcomes : down.err \/ Sendable(Parse(destination))}

\* forwarded: the outbound body and Content-Type the handler holds, the
\* path and query of the outbound request, and whether client.Do was called
NoForward ==
    [sent |-> FALSE, contentType |-> "", body |-> <<>>, Path |-> <<>>,
     RawQuery |-> <<>>]

\* "Forward request": http.NewRequest on the forward destination (its error
\* is dropped, and a nil request makes copyHeader panic: nothing is sent),
\* then the path and the query of the inbound request are copied when the
\* request came in on another path than the listen path
Forward(r, globals, contentType, body) ==
    LET destination == Parse(globals.FORWARD_DESTINATION)
        copied == r.path # globals.LISTEN_PATH
    IN  [sent |-> ~destination.err, contentType |-> contentType, body |-> body,
         Path |-> IF destination.err THEN <<>>
                  ELSE IF copied THEN r.path ELSE destination.Path,
         RawQuery |-> IF destination.err THEN <<>>
                      ELSE IF copied THEN r.query ELSE destination.RawQuery]

\* the body of any other request, read whole: io.ReadAll(r.Body)
ReadBody(r) ==
    IF r.readable
    THEN [err |-> FALSE, contentType |-> r.mime, body |-> <<r.data>>,
          result |-> NoResult_proxy]
    ELSE [err |-> TRUE, contentType |-> "", body |-> <<>>,
          result |-> NoResult_proxy]

\* the codec outcomes of transformations the pipeline did not invoke are
\* fixed: the environment only answers calls that are made
NoRotate == [ok |-> FALSE, len |-> 0, decodable |-> FALSE]
NoProcess == [ok |-> FALSE, len |-> 0]

Answered(calls, codec) ==
    /\ (\A i \in DOMAIN calls : calls[i] # "AutoRotate") => codec.rotate = NoRotate
    /\ (\A i \in DOMAIN calls : calls[i] # "Process") => codec.process = NoProcess

\* what a call of reformatMultipart has returned: nothing yet
NoOut == [err |-> FALSE, contentType |-> "", body |-> <<>>]

VARIABLES
    cfg,        \* the configuration snapshot reformatMultipart is given
    settings,   \* the global settings of proxy.go
    req,        \* the inbound request being handled
    codec,      \* the codec's outcomes for this request
    result,     \* what processImageWithStrategy returned for this request
    out,        \* what a call of reformatMultipart returned
    forwarded,  \* the outbound request the handler built, sent or not
    resp,       \* the status written to the client (0: none)
    calc,       \* a call of calculateResizeDimensions: arguments and result
    naming,     \* a call of the extension functions: argument and results
    env,        \* the process environment the start-up reads
    tasks       \* the requests being handled at the same time, each with
                \* the locals of its own handler

vars ==
    <<cfg, settings, req, codec, result, out, forwarded, resp, calc, naming, env,
      tasks>>

\* no call of the calculator / of the extension functions is under way
NoCalc ==
    [original |-> NoSize,
     settings |-> [MaxWidth |-> 0, MaxHeight |-> 0, MaxNarrowSide |-> 0,
                   JpegQuality |-> 0, WebpQuality |-> 0, ConvertToFormat |-> ""],
     result |-> NoSize, done |-> FALSE]

NoNaming == [filename |-> <<>>, jpg |-> <<>>, webp |-> <<>>, again |-> <<>>,
             done |-> FALSE]

InitWith(configs) ==
    /\ cfg \in configs
    /\ settings = NoSettings
    /\ req = NoRequest
    /\ codec = [rotate |-> NoRotate, process |-> NoProcess]
    /\ result = NoResult
    /\ out = NoOut
    /\ forwarded = NoForward
    /\ resp = 0
    /\ calc = NoCalc
    /\ naming = NoNaming
    /\ env = NoEnv
    /\ tasks = NoTasks

\* no request is being handled
Idle == req = NoRequest

(***************************************************************************)
(* Spec: reformatMultipart is called with a configuration, as its tests    *)
(* call it: on uploads of every kind with one plain form field; on some    *)
(* with a body that is not whole or a file that cannot be had; on one with *)
(* a file part that names no file; and on one whose first field is too     *)
(* long for the memory it is given.                                        *)
(***************************************************************************)
\* reformatMultipart has returned
Returned(r, co, returned) ==
    /\ Answered(returned.result.CodecCalls, co)
    /\ req' = r
    /\ codec' = co
    /\ result' = returned.result
    /\ out' = [err |-> returned.err, contentType |-> returned.contentType,
               body |-> returned.body]
    /\ UNCHANGED <<cfg, settings, forwarded, resp, calc, naming, env, tasks>>

ReformatMultipartOver(requests) ==
    /\ Idle
    /\ \E r \in requests, co \in CodecOutcomes :
          \E order \in Orders(DOMAIN Form(r, cfg.UploadMaxSize)) :
              Returned(r, co, reformatMultipart(r, cfg, co, order))

PlainForms == {<<[name |-> "k1", value |-> "a"]>>}

UploadRequests ==
    MultipartRequests({"assetData"}, FileNames, MimeTypes, Uploads, PlainForms, {<<>>})
    \cup MultipartRequests({"", "avatar"}, {<<"a">>}, {""}, {NonImage(1)},
                           PlainForms, {<<>>})
    \cup MultipartRequests({"assetData"}, {<<>>}, {""}, {NonImage(1)},
                           PlainForms, {<<>>})
    \cup Troubled(MultipartRequests({"assetData"}, {<<"a">>}, {""},
                                    {NonImage(l) : l \in 1..MaxLen},
                                    PlainForms, {<<>>}))
    \cup ReadAhead(MultipartRequests({"assetData"}, {<<"a">>}, {""},
                                     {NonImage(1)}, LongForms, {<<>>}))

Init == InitWith(Configs)

ReformatUpload == ReformatMultipartOver(UploadRequests)

Next == ReformatUpload

Spec == Init /\ [][Next]_vars

(***************************************************************************)
(* SpecForm: forms and queries of every shape, around one plain upload.    *)
(***************************************************************************)
AllPairs == [name : FieldNames, value : FieldValues \cup {LongValue}]

\* a form without the long value is read in one go
FormRequests ==
    {r \in ReadAhead(MultipartRequests({"assetData"}, {<<"a">>}, {""},
                                       {NonImage(1)},
                                       SeqsUpTo(AllPairs, MaxFields),
                                       SeqsUpTo(Pairs, 1))) :
        r.ahead = 0 \/ (r.ahead = 1 /\ LongValue \in {r.fields[i].value : i \in DOMAIN r.fields})}

InitForm == InitWith(PlainConfigs)

ReformatForm == ReformatMultipartOver(FormRequests)

NextForm == ReformatForm

SpecForm == InitForm /\ [][NextForm]_vars

(***************************************************************************)
(* SpecProxy: proxyHandler on the global settings.                         *)
(***************************************************************************)
\* the request was sent and client.Do has not returned
Waiting == forwarded.sent /\ resp = 0

\* the handler panicked on the request that could not be built: the server
\* closes the connection and no status is written
Panicked == ~Idle /\ ~forwarded.sent /\ resp = 0

\* proxyHandler up to client.Do; returned is what reformatMultipart or the
\* read of the body returned.  An error is answered with 400 and nothing is
\* sent.
Respond(r, co, returned) ==
    /\ Answered(returned.result.CodecCalls, co)
    /\ req' = r
    /\ codec' = co
    /\ result' = returned.result
    /\ IF returned.err
       THEN /\ forwarded' = NoForward
            /\ resp' = StatusBadRequest
       ELSE /\ forwarded' = Forward(r, settings, returned.contentType,
                                    returned.body)
            /\ resp' = 0
    /\ UNCHANGED <<cfg, settings, out, calc, naming, env, tasks>>

\* proxyHandler on a multipart/form-data request
HandleMultipart(r, co, order) ==
    Respond(r, co, reformatMultipart_proxy(r, settings, co, order))

\* proxyHandler on any other request: the body is relayed as it is
HandleRaw(r) ==
    Respond(r, [rotate |-> NoRotate, process |-> NoProcess], ReadBody(r))

\* client.Do returns: its error is answered with 424, the downstream's
\* status is written as it came
Relay(down) ==
    /\ Waiting
    /\ resp' = IF down.err THEN StatusFailedDependency ELSE down.status
    /\ UNCHANGED <<cfg, settings, req, codec, result, out, forwarded, calc, naming,
                   env, tasks>>

\* the handler has returned: nothing of the request is kept
Finish ==
    /\ ~Idle
    /\ ~Waiting
    /\ req' = NoRequest
    /\ codec' = [rotate |-> NoRotate, process |-> NoProcess]
    /\ result' = NoResult_proxy
    /\ forwarded' = NoForward
    /\ resp' = 0
    /\ UNCHANGED <<cfg, settings, out, calc, naming, env, tasks>>

\* the uploads the handler is followed on: images of every size, turned or
\* upright, with an alpha channel or without, and bytes that are no image
ProxyUploads ==
    {b \in Uploads : b.len = MaxLen /\ (b.decodable => b.fmt = "png")}

ProxyRequests ==
    MultipartRequests({"assetData"}, {<<"d", "/", "a">>}, {"image/png"},
                      ProxyUploads, PlainForms, {<<>>})
    \cup MultipartRequests({"", "avatar"}, {<<"a">>}, {""}, {NonImage(1)},
                           PlainForms, {<<>>})
    \cup Troubled(MultipartRequests({"assetData"}, {<<"a">>}, {""},
                                    {NonImage(l) : l \in 1..MaxLen},
                                    PlainForms, {<<>>}))
    \cup ReadAhead(MultipartRequests({"assetData"}, {<<"a">>}, {""},
                                     {NonImage(1)}, LongForms, {<<>>}))

InitProxy ==
    /\ cfg = NoConfig
    /\ settings \in Settings \cup Misdirected(PlainSettings)
    /\ req = NoRequest
    /\ codec = [rotate |-> NoRotate, process |-> NoProcess]
    /\ result = NoResult_proxy
    /\ out = NoOut
    /\ forwarded = NoForward
    /\ resp = 0
    /\ calc = NoCalc
    /\ naming = NoNaming
    /\ env = NoEnv
    /\ tasks = NoTasks

ProxyMultipart ==
    /\ Idle
    /\ \E r \in ProxyRequests, co \in CodecOutcomes :
          \E order \in Orders(DOMAIN Form(r, settings.UPLOAD_MAX_SIZE)) :
              HandleMultipart(r, co, order)

ProxyRaw ==
    /\ Idle
    /\ \E r \in RawRequests : HandleRaw(r)

Relaying == \E down \in DoOutcomes(settings.FORWARD_DESTINATION) : Relay(down)

NextProxy == ProxyMultipart \/ ProxyRaw \/ Relaying \/ Finish

SpecProxy == InitProxy /\ [][NextProxy]_vars

(***************************************************************************)
(* SpecCalc: the dimension calculator alone, on every size and setting.    *)
(***************************************************************************)
Sizes == [Width : 1..MaxSide, Height : 1..MaxSide]

\* ImageProcessingSettings as the configuration admits them: positive box
\* limits, a narrow-side limit of 0 (disabled) or more
CalcSettings ==
    [MaxWidth : 1..MaxBox, MaxHeight : 1..MaxBox, MaxNarrowSide : 0..MaxNarrow,
     JpegQuality : {DEFAULT_JPEG_QUALITY}, WebpQuality : {DEFAULT_WEBP_QUALITY},
     ConvertToFormat : {""}]
    \cup [MaxWidth : 1..MaxWideBox, MaxHeight : 1..MaxWideBox,
          MaxNarrowSide : {0},
          JpegQuality : {DEFAULT_JPEG_QUALITY},
          WebpQuality : {DEFAULT_WEBP_QUALITY}, ConvertToFormat : {""}]

InitCalc ==
    /\ cfg \in {c \in PlainConfigs : c.ImgMaxNarrowSide = 0}
    /\ settings = NoSettings
    /\ req = NoRequest
    /\ codec = [rotate |-> NoRotate, process |-> NoProcess]
    /\ result = NoResult
    /\ out = NoOut
    /\ forwarded = NoForward
    /\ resp = 0
    /\ calc \in [original : Sizes, settings : CalcSettings, result : {NoSize},
                 done : {FALSE}]
    /\ naming = NoNaming
    /\ env = NoEnv
    /\ tasks = NoTasks

Calculate ==
    /\ ~calc.done
    /\ calc' = [calc EXCEPT !.result = calculateResizeDimensions(calc.original,
                                                                 calc.settings),
                            !.done = TRUE]
    /\ UNCHANGED <<cfg, settings, req, codec, result, out, forwarded, resp, naming,
                   env, tasks>>

NextCalc == Calculate

SpecCalc == InitCalc /\ [][NextCalc]_vars

(***************************************************************************)
(* SpecName: the extension functions alone, on every short name over a     *)
(* letter, the dot and the path separator.                                 *)
(***************************************************************************)
NameChars == {"a", ".", "/"}

Names == SeqsUpTo(NameChars, MaxName)

InitName ==
    /\ cfg \in {c \in PlainConfigs : c.ImgMaxNarrowSide = 0}
    /\ settings = NoSettings
    /\ req = NoRequest
    /\ codec = [rotate |-> NoRotate, process |-> NoProcess]
    /\ result = NoResult
    /\ out = NoOut
    /\ forwarded = NoForward
    /\ resp = 0
    /\ calc = NoCalc
    /\ naming \in [filename : Names, jpg : {<<>>}, webp : {<<>>}, again : {<<>>},
                   done : {FALSE}]
    /\ env = NoEnv
    /\ tasks = NoTasks

\* both functions on the name, and changeExtensionToJPG on its own result
Normalize ==
    /\ ~naming.done
    /\ naming' = [naming EXCEPT
                      !.jpg = changeExtensionToJPG(naming.filename),
                      !.webp = changeExtensionToWebP(naming.filename),
                      !.again = changeExtensionToJPG(
                                    changeExtensionToJPG(naming.filename)),
                      !.done = TRUE]
    /\ UNCHANGED <<cfg, settings, req, codec, result, out, forwarded, resp, calc,
                   env, tasks>>

NextName == Normalize

SpecName == InitName /\ [][NextName]_vars

(***************************************************************************)
(* Start-up alone, from an environment with at most MaxSet variables set:  *)
(* the configuration is loaded by NewConfigFromEnv, or the global settings *)
(* are written by initializeSettings, whichever the build starts with.     *)
(***************************************************************************)
InitEnv ==
    /\ cfg = NoConfig
    /\ settings = NoSettings
    /\ req = NoRequest
    /\ codec = [rotate |-> NoRotate, process |-> NoProcess]
    /\ result = NoResult
    /\ out = NoOut
    /\ forwarded = NoForward
    /\ resp = 0
    /\ calc = NoCalc
    /\ naming = NoNaming
    /\ \E S \in {T \in SUBSET EnvNames : Cardinality(T) <= MaxSet} :
          \E f \in [S -> EnvTexts] : env = EnvironmentSetting(S, f)
    /\ tasks = NoTasks

LoadConfig ==
    /\ cfg = NoConfig
    /\ settings = NoSettings
    /\ cfg' = NewConfigFromEnv(env)
    /\ UNCHANGED <<settings, req, codec, result, out, forwarded, resp, calc, naming,
                   env, tasks>>

\* main of proxy.go starts with initializeSettings
InitializeSettings ==
    /\ cfg = NoConfig
    /\ settings = NoSettings
    /\ settings' = initializeSettings(env)
    /\ UNCHANGED <<cfg, req, codec, result, out, forwarded, resp, calc, naming, env,
                   tasks>>

NextEnv == LoadConfig \/ InitializeSettings

SpecEnv == InitEnv /\ [][NextEnv]_vars

(***************************************************************************)
(* Several requests handled at the same time.  net/http runs proxyHandler  *)
(* in one goroutine per request; every handler has its own locals (the     *)
(* request, the parsed file part, the processing result, the outbound      *)
(* body, the outbound request) and reads the one set of global settings.   *)
(* A handler advances in steps: the form is parsed and the file read (or   *)
(* the body of another request read), the image is processed, the body is  *)
(* written, the outbound request is built and sent, the downstream         *)
(* answers, the handler returns.  The steps of different handlers          *)
(* interleave freely: a request may arrive, and be answered, while another *)
(* waits.                                                                  *)
(***************************************************************************)
Handlers == 1..MaxTasks

IdleTask ==
    [pc |-> "idle", r |-> NoRequest,
     co |-> [rotate |-> NoRotate, process |-> NoProcess], order |-> <<>>,
     handler |-> NoFile, result |-> NoResult_proxy,
     out |-> NoOut, forwarded |-> NoForward, status |-> 0]

\* the requests and codec outcomes of the concurrent runs: a turned 2x1
\* jpeg, a 1x1 png with an alpha channel, bytes that are no image, a
\* request without the file field, one whose body is not whole, and
\* requests that are not multipart
ConcurrentUploads ==
    {[decodable |-> TRUE, fmt |-> "jpeg", len |-> 2, w |-> 2, h |-> 1,
      alpha |-> FALSE, orient |-> 6],
     [decodable |-> TRUE, fmt |-> "png", len |-> 1, w |-> 1, h |-> 1,
      alpha |-> TRUE, orient |-> EXIF_ORIENTATION_NORMAL],
     NonImage(1)}

ConcurrentRequests ==
    MultipartRequests({"assetData"}, {<<"a", ".", "p">>}, {"image/png"},
                      ConcurrentUploads, PlainForms, {<<>>})
    \cup MultipartRequests({"avatar"}, {<<"a">>}, {""}, {NonImage(1)},
                           PlainForms, {<<>>})
    \cup {r \in Troubled(MultipartRequests({"assetData"}, {<<"a">>}, {""},
                                           {NonImage(1)}, PlainForms, {<<>>})) :
             ~r.readable /\ r.stored = "ok" /\ r.path = OtherPath}

ConcurrentRaw == {r \in RawRequests : r.data.len = 1 /\ r.path = OtherPath}

ConcurrentCodecOutcomes ==
    [rotate : {NoRotate, [ok |-> TRUE, len |-> 1, decodable |-> TRUE]},
     process : {NoProcess, [ok |-> TRUE, len |-> 1]}]

ConcurrentSettings ==
    {s \in Settings \cup Misdirected(PlainSettings) :
        /\ s.IMG_MAX_WIDTH = 1 /\ s.IMG_MAX_HEIGHT = 1
        /\ s.FORWARD_DESTINATION \in {DefaultForwardDestination, BadDestination}}

\* a handler that takes the processing result from the first handler's slot
ResultOfShared(i) == tasks[1].result

\* the processing result a handler holds
ResultOf(i) == tasks[i].result

\* proxyHandler is entered with a multipart request: reformatMultipart
\* parses the form, fetches the file part and reads it; when that fails the
\* request is answered 400
AcceptUpload(i, r, co, order) ==
    /\ tasks[i].pc = "idle"
    /\ Answered(reformatMultipart_proxy(r, settings, co, order).result.CodecCalls,
                co)
    /\ LET handler == FormFile(r, settings.FILE_UPLOAD_FIELD,
                               settings.UPLOAD_MAX_SIZE)
       IN  tasks' = [tasks EXCEPT ![i] =
               [IdleTask EXCEPT
                   !.pc = IF FileRead(handler) THEN "parsed" ELSE "answered",
                   !.r = r, !.co = co, !.order = order, !.handler = handler,
                   !.out = IF FileRead(handler) THEN NoOut
                           ELSE [err |-> TRUE, contentType |-> "", body |-> <<>>],
                   !.status = IF FileRead(handler) THEN 0 ELSE StatusBadRequest]]
    /\ UNCHANGED <<cfg, settings, req, codec, result, out, forwarded, resp, calc,
                   naming, env>>

\* proxyHandler is entered with any other request: the body is read, and
\* answered 400 when it cannot be
AcceptRaw(i, r) ==
    /\ tasks[i].pc = "idle"
    /\ LET read == ReadBody(r)
       IN  tasks' = [tasks EXCEPT ![i] =
               [IdleTask EXCEPT
                   !.pc = IF read.err THEN "answered" ELSE "written",
                   !.r = r,
                   !.out = [err |-> read.err, contentType |-> read.contentType,
                            body |-> read.body],
                   !.status = IF read.err THEN StatusBadRequest ELSE 0]]
    /\ UNCHANGED <<cfg, settings, req, codec, result, out, forwarded, resp, calc,
                   naming, env>>

\* result, err := processImageWithStrategy(byteContainer, settings)
ProcessImage(i) ==
    /\ tasks[i].pc = "parsed"
    /\ tasks' = [tasks EXCEPT ![i].pc = "processed",
                              ![i].result =
                                  processImageWithStrategy_proxy(
                                      tasks[i].handler.bytes,
                                      SettingsOf_proxy(settings), settings,
                                      tasks[i].co)]
    /\ UNCHANGED <<cfg, settings, req, codec, result, out, forwarded, resp, calc,
                   naming, env>>

\* the outbound body is written from the handler's own locals
WriteBody(i) ==
    /\ tasks[i].pc = "processed"
    /\ LET written == reformatProcessed_proxy(tasks[i].r, settings, tasks[i].order,
                                              tasks[i].handler, ResultOf(i))
       IN  tasks' = [tasks EXCEPT ![i].pc = "written",
                                  ![i].out = [err |-> written.err,
                                              contentType |-> written.contentType,
                                              body |-> written.body]]
    /\ UNCHANGED <<cfg, settings, req, codec, result, out, forwarded, resp, calc,
                   naming, env>>

\* the outbound request is built and handed to client.Do, unless the
\* handler panics on a request that could not be built
SendBody(i) ==
    /\ tasks[i].pc = "written"
    /\ LET outbound == Forward(tasks[i].r, settings, tasks[i].out.contentType,
                               tasks[i].out.body)
       IN  tasks' = [tasks EXCEPT
                        ![i].pc = IF outbound.sent THEN "sent" ELSE "panicked",
                        ![i].forwarded = outbound]
    /\ UNCHANGED <<cfg, settings, req, codec, result, out, forwarded, resp, calc,
                   naming, env>>

\* client.Do returns and the client is answered
ForwardBody(i, down) ==
    /\ tasks[i].pc = "sent"
    /\ tasks' = [tasks EXCEPT ![i].pc = "answered",
                              ![i].status = IF down.err THEN StatusFailedDependency
                                            ELSE down.status]
    /\ UNCHANGED <<cfg, settings, req, codec, result, out, forwarded, resp, calc,
                   naming, env>>

\* the handler returns and its locals are gone
Return(i) ==
    /\ tasks[i].pc \in {"answered", "panicked"}
    /\ tasks' = [tasks EXCEPT ![i] = IdleTask]
    /\ UNCHANGED <<cfg, settings, req, codec, result, out, forwarded, resp, calc,
                   naming, env>>

InitConcurrent ==
    /\ cfg = NoConfig
    /\ settings \in ConcurrentSettings
    /\ req = NoRequest
    /\ codec = [rotate |-> NoRotate, process |-> NoProcess]
    /\ result = NoResult_proxy
    /\ out = NoOut
    /\ forwarded = NoForward
    /\ resp = 0
    /\ calc = NoCalc
    /\ naming = NoNaming
    /\ env = NoEnv
    /\ tasks = [i \in Handlers |-> IdleTask]

Accepting ==
    \E i \in Handlers, r \in ConcurrentRequests, co \in ConcurrentCodecOutcomes :
        \E order \in Orders(DOMAIN Form(r, settings.UPLOAD_MAX_SIZE)) :
            AcceptUpload(i, r, co, order)

AcceptingRaw == \E i \in Handlers, r \in ConcurrentRaw : AcceptRaw(i, r)

Processing == \E i \in Handlers : ProcessImage(i)

Writing == \E i \in Handlers : WriteBody(i)

Sending == \E i \in Handlers : SendBody(i)

Forwarding ==
    \E i \in Handlers, down \in DoOutcomes(settings.FORWARD_DESTINATION) :
        ForwardBody(i, down)

Returning == \E i \in Handlers : Return(i)

NextConcurrent ==
    \/ Accepting \/ AcceptingRaw \/ Processing \/ Writing \/ Sending
    \/ Forwarding \/ Returning

SpecConcurrent == InitConcurrent /\ [][NextConcurrent]_vars

(***************************************************************************)
(* What a state shows of the request that was handled.                     *)
(***************************************************************************)
\* the place of the first field with the long value, 0 when there is none
FirstLong(fields) ==
    IF \E i \in DOMAIN fields : fields[i].value = LongValue
    THEN CHOOSE i \in DOMAIN fields :
             /\ fields[i].value = LongValue
             /\ \A j \in 1..(i - 1) : fields[j].value # LongValue
    ELSE 0

\* the body of the request is whole and carries a file under the field; the
\* form was parsed with the file opened and read, or the reader gave up on
\* a field and a second reader found the file part in what was left
Obtained(r, field, maxMemory) ==
    /\ r.readable
    /\ r.fileField = field
    /\ r.filename # <<>>
    /\ IF FirstLong(r.fields) = 0
       THEN r.data.len > maxMemory => r.stored = "ok"
       ELSE FirstLong(r.fields) + r.ahead <= Len(r.fields)

FileObtained == Obtained(req, cfg.FileUploadField, cfg.UploadMaxSize)

\* a multipart request whose file part was obtained was handled
Reformatted == req.multipart /\ FileObtained

\* reformatMultipart returned a reconstructed body to forward
Emitted == req.multipart /\ ~out.err /\ out.body # <<>>

\* the file part of the outbound body (the last part written)
EmittedFile == out.body[Len(out.body)]

\* the filename reformatMultipart is handed for the upload
OriginalFilename == Base(req.filename)

\* the handler itself answered 400: nothing was built and nothing sent
Refused == resp = StatusBadRequest /\ ~forwarded.sent /\ forwarded.body = <<>>

\* http.NewRequest can build a request for the forward destination
Deliverable == ~Parse(settings.FORWARD_DESTINATION).err

\* the file was obtained by the handler of proxy.go
ProxyFileObtained ==
    Obtained(req, settings.FILE_UPLOAD_FIELD, settings.UPLOAD_MAX_SIZE)

ForwardedFileParts == SelectSeq(forwarded.body, LAMBDA p : p.kind = "file")

MimeOfFormat(fmt) ==
    IF fmt = "jpeg" THEN JPEG_MIME_TYPE
    ELSE IF fmt = "webp" THEN WEBP_MIME_TYPE
    ELSE IF fmt = "png" THEN "image/png"
    ELSE DEFAULT_MIME_TYPE

ExtOfFormat(fmt) == IF fmt = "webp" THEN ExtWEBP ELSE ExtJPG

TargetMime == IF cfg.ConvertToFormat = "WEBP" THEN WEBP_MIME_TYPE ELSE JPEG_MIME_TYPE

TargetFormat == IF cfg.ConvertToFormat = "WEBP" THEN "webp" ELSE "jpeg"

Called(name) == \E i \in DOMAIN result.CodecCalls : result.CodecCalls[i] = name

\* the orientation correction ran and returned an image
RotationApplied == Called("AutoRotate") /\ codec.rotate.ok

\* workingBytes: the orientation-corrected buffer, or the upload itself
WorkingBytes ==
    IF RotationApplied THEN AutoRotate(req.data, codec.rotate).bytes ELSE req.data

\* the encoder was run on the conversion path and returned an encoding
ConversionRan ==
    /\ Reformatted
    /\ cfg.ConvertToFormat # ""
    /\ Called("Process")
    /\ result.ProcessingError = "nil"

\* the values an outbound body carries under a field name, in order
OutboundValues(n) ==
    ValuesOf(SelectSeq(out.body, LAMBDA p : p.kind = "field"), n)

FileParts == SelectSeq(out.body, LAMBDA p : p.kind = "file")

(***************************************************************************)
(* C1.  As stated: for every upload and configuration, and any             *)
(* client-declared content type, the MIME type declared on the emitted     *)
(* file part names the encoded format of the bytes written into the part.  *)
(* This fails for an image that is passed through under the type the       *)
(* client declared (or under the binary default when none was declared).   *)
(***************************************************************************)
C1_AnyDeclaredType ==
    (Emitted /\ EmittedFile.data.decodable)
        => EmittedFile.mimeType = MimeOfFormat(EmittedFile.data.fmt)

\* C1, amended: the MIME type on the emitted file part names the format of
\* the emitted image bytes whenever the conversion was adopted or the
\* client-declared type names the format of the upload.
C1_MimeNamesFormat ==
    (/\ Emitted
     /\ EmittedFile.data.decodable
     /\ result.WasCompressed \/ req.mime = MimeOfFormat(req.data.fmt))
        => EmittedFile.mimeType = MimeOfFormat(EmittedFile.data.fmt)

C1_Witness ==
    /\ Emitted
    /\ result.WasCompressed
    /\ req.data.fmt = "png"
    /\ req.mime = "image/png"
    /\ EmittedFile.data.fmt = "jpeg"
    /\ EmittedFile.mimeType = JPEG_MIME_TYPE

(***************************************************************************)
(* C2.  As stated: a compressed result is emitted under the MIME type of   *)
(* the target format (a.p becoming a.JPG / a.WEBP under normalisation); a  *)
(* result that is not compressed is emitted under the original filename    *)
(* and the original MIME type.  This fails when the upload declared no     *)
(* type: the part is then emitted as application/octet-stream.             *)
(***************************************************************************)
C2_CompressedLabel ==
    result.WasCompressed =>
        /\ EmittedFile.mimeType = TargetMime
        /\ (cfg.NormalizeExt /\ req.filename = <<"a", ".", "p">>)
               => EmittedFile.filename = <<"a">> \o ExtOfFormat(TargetFormat)
        /\ (cfg.NormalizeExt /\ req.filename = <<"d", "/", "a">>)
               => EmittedFile.filename = <<"a">> \o ExtOfFormat(TargetFormat)

C2_OriginalMimeVerbatim ==
    (Emitted /\ result.ProcessingError = "nil") =>
        /\ C2_CompressedLabel
        /\ ~result.WasCompressed =>
               /\ EmittedFile.filename = OriginalFilename
               /\ EmittedFile.mimeType = req.mime

\* C2, amended: as above, but a result that is not compressed is emitted
\* under the original MIME type, or application/octet-stream when the
\* upload declared none.
C2_LabelFollowsCompression ==
    (Emitted /\ result.ProcessingError = "nil") =>
        /\ C2_CompressedLabel
        /\ ~result.WasCompressed =>
               /\ EmittedFile.filename = OriginalFilename
               /\ EmittedFile.mimeType =
                      (IF req.mime = "" THEN DEFAULT_MIME_TYPE ELSE req.mime)

\* a conversion that was rejected, of an upload that declared no type
C2_Witness ==
    /\ ConversionRan
    /\ Emitted
    /\ ~result.WasCompressed
    /\ req.mime = ""
    /\ req.filename = <<"a", ".", "p">>
    /\ EmittedFile.filename = <<"a", ".", "p">>
    /\ EmittedFile.mimeType = DEFAULT_MIME_TYPE

(***************************************************************************)
(* C3.  As stated: whenever the emitted bytes are a converted JPEG or      *)
(* WEBP, the emitted filename carries the matching extension, for every    *)
(* value of normalizeExtensions.  This fails with normalisation off: the   *)
(* converted bytes go out under the original filename.                     *)
(***************************************************************************)
C3_ExtensionAlways ==
    (Emitted /\ result.WasCompressed)
        => Ext(EmittedFile.filename) = ExtOfFormat(EmittedFile.data.fmt)

\* C3, amended: whenever the emitted bytes are a converted JPEG or WEBP the
\* declared content type is that format's, and the filename carries the
\* matching extension when normalizeExtensions is on and is the original
\* filename when it is off.
C3_ExtensionWhenNormalizing ==
    (Emitted /\ result.WasCompressed) =>
        /\ EmittedFile.data.fmt \in {"jpeg", "webp"}
        /\ EmittedFile.mimeType = MimeOfFormat(EmittedFile.data.fmt)
        /\ IF cfg.NormalizeExt
           THEN Ext(EmittedFile.filename) = ExtOfFormat(EmittedFile.data.fmt)
           ELSE EmittedFile.filename = OriginalFilename

C3_Witness ==
    /\ Emitted
    /\ result.WasCompressed
    /\ cfg.NormalizeExt
    /\ req.filename = <<"a", ".", "p">>
    /\ EmittedFile.data.fmt = "webp"
    /\ EmittedFile.filename = <<"a", ".", "W", "E", "B", "P">>

(***************************************************************************)
(* C4.  On the conversion path the encoded bytes are adopted               *)
(* (WasCompressed) only if they are strictly shorter than workingBytes,    *)
(* the orientation-corrected buffer; otherwise ProcessedData is exactly    *)
(* workingBytes and WasCompressed is false.  No result has WasCompressed   *)
(* with ProcessedData as long as workingBytes or longer.                   *)
(***************************************************************************)
C4_AdoptsOnlySmaller ==
    /\ ConversionRan =>
           IF codec.process.len < WorkingBytes.len
           THEN /\ result.WasCompressed
                /\ result.ProcessedData.len = codec.process.len
                /\ result.ProcessedData.fmt = TargetFormat
           ELSE /\ ~result.WasCompressed
                /\ result.ProcessedData = WorkingBytes
    /\ result.WasCompressed =>
           /\ ConversionRan
           /\ result.ProcessedData.len < WorkingBytes.len

\* an encoding shorter than the upload but as long as the rotated buffer
C4_Witness ==
    /\ ConversionRan
    /\ RotationApplied
    /\ WorkingBytes.len < req.data.len
    /\ codec.process.len = WorkingBytes.len
    /\ ~result.WasCompressed
    /\ result.ProcessedData = WorkingBytes

(***************************************************************************)
(* C5.  Whenever ConvertToFormat is set and the upload decodes and has an  *)
(* alpha channel, the result carries the upload's bytes untouched, with    *)
(* WasCompressed and WasResized false and no error, whatever the resize    *)
(* settings and the image size; the codec is asked for no transformation.  *)
(***************************************************************************)
C5_TransparencyShortCircuit ==
    (/\ Reformatted
     /\ cfg.ConvertToFormat # ""
     /\ req.data.decodable
     /\ req.data.alpha)
        => /\ result.ProcessedData = req.data
           /\ ~result.WasCompressed
           /\ ~result.WasResized
           /\ result.ProcessingError = "nil"
           /\ result.CodecCalls = <<>>

\* a transparent image that is turned and wider than the limit
C5_Witness ==
    /\ Reformatted
    /\ cfg.ConvertToFormat = "JPEG"
    /\ req.data.decodable
    /\ req.data.alpha
    /\ req.data.orient > EXIF_ORIENTATION_NORMAL
    /\ req.data.w > cfg.ImgMaxWidth
    /\ result.ProcessedData = req.data
    /\ result.ProcessingError = "nil"

(***************************************************************************)
(* C6.  As stated: if ProcessingError is non-nil, ProcessedData equals the *)
(* original input bytes, whatever step failed and whether or not the       *)
(* orientation correction had rotated the image.  This fails after a       *)
(* rotation: the result then carries the rotated buffer.                   *)
(***************************************************************************)
ProcessingFailed == Reformatted /\ result.ProcessingError \in {"size", "process"}

C6_OriginalOnError == ProcessingFailed => result.ProcessedData = req.data

\* C6, amended: if ProcessingError is non-nil, ProcessedData equals
\* workingBytes: the rotated buffer when the orientation correction was
\* applied, the original input otherwise.
C6_WorkingBytesOnError ==
    ProcessingFailed =>
        /\ result.ProcessedData = WorkingBytes
        /\ ~RotationApplied => result.ProcessedData = req.data
        /\ ~result.WasCompressed
        /\ ~result.WasResized

C6_Witness ==
    /\ ProcessingFailed
    /\ result.ProcessingError = "process"
    /\ cfg.ConvertToFormat # ""
    /\ RotationApplied
    /\ result.ProcessedData = WorkingBytes
    /\ result.ProcessedData # req.data

(***************************************************************************)
(* C7.  An upload whose bytes do not decode as an image is never rejected: *)
(* no error is returned and the emitted file part has the upload's bytes,  *)
(* the original filename and the original MIME type (or                    *)
(* application/octet-stream when none was declared), for every             *)
(* ConvertToFormat.                                                        *)
(***************************************************************************)
C7_NonImagePassesThrough ==
    (Reformatted /\ ~req.data.decodable) =>
        /\ ~out.err
        /\ Emitted
        /\ Len(FileParts) = 1
        /\ EmittedFile.kind = "file"
        /\ EmittedFile.data = req.data
        /\ EmittedFile.filename = OriginalFilename
        /\ EmittedFile.mimeType =
               (IF req.mime = "" THEN DEFAULT_MIME_TYPE ELSE req.mime)

C7_Witness ==
    /\ Reformatted
    /\ ~req.data.decodable
    /\ cfg.ConvertToFormat = "WEBP"
    /\ cfg.NormalizeExt
    /\ req.mime = ""
    /\ req.filename = <<"d", "/", "a">>
    /\ ~out.err
    /\ EmittedFile.data = req.data
    /\ EmittedFile.filename = <<"a">>
    /\ EmittedFile.mimeType = DEFAULT_MIME_TYPE

(***************************************************************************)
(* C8.  As stated: the outbound body contains every non-file field of the  *)
(* inbound form body with its value(s) unchanged, every value of a         *)
(* repeated field included and no field that was not in the form body,     *)
(* followed by exactly one file part.  The code writes one part per key of *)
(* r.Form with the key's first value, and r.Form also holds the URL query. *)
(***************************************************************************)
C8_FieldsCopiedUnchanged ==
    Emitted =>
        /\ \A n \in FieldNames : OutboundValues(n) = ValuesOf(req.fields, n)
        /\ Len(FileParts) = 1
        /\ EmittedFile.kind = "file"

(***************************************************************************)
(* C9.  As stated: when the configured file field is missing from a        *)
(* multipart request, an error is returned, the handler answers 400 and    *)
(* nothing is forwarded; in every other multipart case no error is         *)
(* returned and the request is forwarded.                                  *)
(***************************************************************************)
C9_OnlyMissingFieldRejected ==
    req.multipart =>
        IF req.fileField # settings.FILE_UPLOAD_FIELD
        THEN Refused
        ELSE /\ ~Refused
             /\ forwarded.sent
             /\ forwarded.contentType = "multipart/form-data"
             /\ Len(ForwardedFileParts) = 1

(***************************************************************************)
(* C9, as the code has it.  A multipart request is answered 400, with      *)
(* nothing built and nothing sent, when the form that was parsed holds no  *)
(* file under the configured field (the field is missing, or the body is   *)
(* not whole, or the part's temporary file could not be created, or a      *)
(* second reader started behind the part) and also when the file cannot be *)
(* opened or read.  In every other multipart case (non-image, codec        *)
(* failure, rotation failure, a form the first reader gave up on and the   *)
(* second read the file of) no error is returned and the handler goes on   *)
(* to forward the reconstructed body: the request is handed to the client  *)
(* when the forward destination is a URL, and when it is not the handler   *)
(* panics before it sends anything and writes no status.                   *)
(***************************************************************************)
C9_RefusedOnlyWithoutFile ==
    req.multipart =>
        IF ~ProxyFileObtained
        THEN Refused
        ELSE /\ ~Refused
             /\ forwarded.body # <<>>
             /\ forwarded.contentType = "multipart/form-data"
             /\ Len(ForwardedFileParts) = 1
             /\ forwarded.sent = Deliverable
             /\ ~Deliverable => resp = 0

\* a request without the configured field is refused
C9_Witness ==
    /\ req.multipart
    /\ req.readable
    /\ req.fileField = "avatar"
    /\ settings.FILE_UPLOAD_FIELD = "assetData"
    /\ Refused

(***************************************************************************)
(* C10.  As stated: a multipart request whose body exceeds the configured  *)
(* UploadMaxSize is rejected: an error is returned and nothing is          *)
(* forwarded.  The code passes UploadMaxSize to ParseMultipartForm, where  *)
(* it limits the memory used and not the body, and drops the call's error. *)
(***************************************************************************)
\* a lower bound of the body's size: the file's bytes
C10_OversizedRejected ==
    (req.multipart /\ req.data.len > cfg.UploadMaxSize) => out.err

(***************************************************************************)
(* What a state shows of a call of the calculator.                         *)
(***************************************************************************)
NarrowStrategy == calc.done /\ calc.settings.MaxNarrowSide > 0
BoxStrategy == calc.done /\ calc.settings.MaxNarrowSide = 0

\* the orientation-matched box: the long configured edge lies along the
\* long side of the image
LongEdge == Max(calc.settings.MaxWidth, calc.settings.MaxHeight)
ShortEdge == Min(calc.settings.MaxWidth, calc.settings.MaxHeight)
EffectiveMaxWidth ==
    IF calc.original.Width >= calc.original.Height THEN LongEdge ELSE ShortEdge
EffectiveMaxHeight ==
    IF calc.original.Width >= calc.original.Height THEN ShortEdge ELSE LongEdge

FitsBox ==
    /\ calc.original.Width <= EffectiveMaxWidth
    /\ calc.original.Height <= EffectiveMaxHeight

NarrowSide == Min(calc.original.Width, calc.original.Height)
WideSide == Max(calc.original.Width, calc.original.Height)

Transposed(size) == ImageSize(size.Height, size.Width)

\* the settings with maxWidth and maxHeight replaced
WithBox(s, maxWidth, maxHeight) ==
    [s EXCEPT !.MaxWidth = maxWidth, !.MaxHeight = maxHeight]

(***************************************************************************)
(* C11.  The calculator returns the original dimensions unchanged whenever *)
(* the image satisfies the active constraint: under the narrow-side        *)
(* strategy when min(w,h) <= maxNarrowSide, under the bounding box when    *)
(* w <= effectiveMaxWidth and h <= effectiveMaxHeight of the               *)
(* orientation-matched box.                                                *)
(***************************************************************************)
C11_UnchangedWhenWithin ==
    /\ (NarrowStrategy /\ NarrowSide <= calc.settings.MaxNarrowSide)
           => calc.result = calc.original
    /\ (BoxStrategy /\ FitsBox) => calc.result = calc.original

\* a portrait image taller than maxHeight that fits the turned box
C11_Witness ==
    /\ BoxStrategy
    /\ calc.original.Height > calc.original.Width
    /\ calc.settings.MaxWidth > calc.settings.MaxHeight
    /\ calc.original.Height > calc.settings.MaxHeight
    /\ FitsBox
    /\ calc.result = calc.original

(***************************************************************************)
(* C12.  The calculator never upscales, under both strategies: the result  *)
(* is no wider and no taller than the original, and dimensions are scaled  *)
(* only when the scale factor is below 1.                                  *)
(***************************************************************************)
C12_NeverUpscales ==
    calc.done =>
        /\ calc.result.Width <= calc.original.Width
        /\ calc.result.Height <= calc.original.Height
        /\ (NarrowStrategy /\ calc.result # calc.original)
               => calc.settings.MaxNarrowSide < NarrowSide
        /\ (BoxStrategy /\ calc.result # calc.original)
               => \/ EffectiveMaxWidth < calc.original.Width
                  \/ EffectiveMaxHeight < calc.original.Height

C12_Witness ==
    /\ NarrowStrategy
    /\ calc.settings.MaxNarrowSide < NarrowSide
    /\ calc.result.Width < calc.original.Width
    /\ calc.result.Height < calc.original.Height
    /\ calc.result.Width > 0

(***************************************************************************)
(* C13.  Orientation symmetry: the calculator on {w,h} and the calculator  *)
(* on {h,w} with maxWidth and maxHeight swapped return dimensions that are *)
(* transposes of each other.                                               *)
(***************************************************************************)
C13_OrientationSymmetry ==
    calc.done =>
        calculateResizeDimensions(
            Transposed(calc.original),
            WithBox(calc.settings, calc.settings.MaxHeight, calc.settings.MaxWidth))
        = Transposed(calc.result)

C13_Witness ==
    /\ BoxStrategy
    /\ calc.original.Width > calc.original.Height
    /\ calc.settings.MaxWidth # calc.settings.MaxHeight
    /\ calc.result.Width # calc.result.Height
    /\ calc.result # calc.original
    /\ calculateResizeDimensions(
           Transposed(calc.original),
           WithBox(calc.settings, calc.settings.MaxHeight, calc.settings.MaxWidth))
       = Transposed(calc.result)

(***************************************************************************)
(* C14.  Narrow-side precedence: whenever maxNarrowSide > 0 the result is  *)
(* the same for all values of maxWidth and maxHeight; the box limits are   *)
(* used only when maxNarrowSide = 0 and the strategies are never blended:  *)
(* an image within the narrow-side limit is unchanged however far it       *)
(* exceeds the box.                                                        *)
(***************************************************************************)
C14_NarrowSidePrecedence ==
    NarrowStrategy =>
        /\ \A maxWidth, maxHeight \in 1..MaxBox :
               calculateResizeDimensions(
                   calc.original, WithBox(calc.settings, maxWidth, maxHeight))
               = calc.result
        /\ NarrowSide <= calc.settings.MaxNarrowSide => calc.result = calc.original

C14_Witness ==
    /\ NarrowStrategy
    /\ calc.original.Width > calc.settings.MaxWidth
    /\ calc.original.Height > calc.settings.MaxHeight
    /\ calc.original.Width > calc.settings.MaxHeight
    /\ calc.original.Height > calc.settings.MaxWidth
    /\ NarrowSide <= calc.settings.MaxNarrowSide
    /\ calc.result = calc.original

(***************************************************************************)
(* C15.  As stated: with long = max(maxWidth, maxHeight) and               *)
(* short = min(maxWidth, maxHeight), a landscape or square image gets the  *)
(* box (long, short) and a portrait image (short, long); an image that     *)
(* does not fit gets (trunc(w*s), trunc(h*s)) with s the smaller of        *)
(* effW/w and effH/h.  With 1920x1080, {2000,3000} gives {1080,1620} and   *)
(* {3000,2000} {1620,1080}.  The scale is stated here as the exact         *)
(* quotient num/den, so that trunc(x*s) is (x * num) \div den; the code     *)
(* multiplies by the rounded float64 quotient: {22,22} in 15x15 gives      *)
(* {14,14}.                                                                *)
(***************************************************************************)
\* s as a pair (numerator, denominator): the smaller of effW/w and effH/h
BoxScale ==
    IF EffectiveMaxHeight * calc.original.Width
           < EffectiveMaxWidth * calc.original.Height
    THEN <<EffectiveMaxHeight, calc.original.Height>>
    ELSE <<EffectiveMaxWidth, calc.original.Width>>

\* trunc(x * s) for the exact quotient s
ExactTrunc(x, scale) == (x * scale[1]) \div scale[2]

C15_BoundingBoxExact ==
    BoxStrategy =>
        /\ IF FitsBox
           THEN calc.result = calc.original
           ELSE calc.result = ImageSize(ExactTrunc(calc.original.Width, BoxScale),
                                        ExactTrunc(calc.original.Height, BoxScale))
        /\ calculateBoundingBoxResize(ImageSize(2000, 3000), 1920, 1080)
               = ImageSize(1080, 1620)
        /\ calculateBoundingBoxResize(ImageSize(3000, 2000), 1920, 1080)
               = ImageSize(1620, 1080)

(***************************************************************************)
(* C16.  As stated: for all (w,h) with min(w,h) > maxNarrowSide > 0 the    *)
(* result's narrow side equals maxNarrowSide exactly and its wide side is  *)
(* the truncation of wide * maxNarrowSide / narrow.  The code multiplies   *)
(* by the rounded float64 quotient: {22,22} with 15 gives {14,14}.         *)
(***************************************************************************)
C16_NarrowSideExact ==
    (NarrowStrategy /\ NarrowSide > calc.settings.MaxNarrowSide) =>
        /\ Min(calc.result.Width, calc.result.Height) = calc.settings.MaxNarrowSide
        /\ Max(calc.result.Width, calc.result.Height)
               = (WideSide * calc.settings.MaxNarrowSide) \div NarrowSide

(***************************************************************************)
(* C17.  As stated: for every original size with positive width and height *)
(* and every valid settings value, the returned dimensions have positive   *)
(* width and height.  The truncation gives 0 for a side that scales below  *)
(* one pixel: {5,1} in 4x4 gives {4,0}.                                    *)
(***************************************************************************)
C17_PositiveDimensions ==
    calc.done => calc.result.Width > 0 /\ calc.result.Height > 0

(***************************************************************************)
(* C18.  As stated: every uploaded image that decodes and whose decoded    *)
(* size exceeds the active resize limit is forwarded with the pixel        *)
(* dimensions of the calculator's target, for every ConvertToFormat and    *)
(* every image.  A conversion that is not smaller than the working bytes   *)
(* is dropped together with its resize.                                    *)
(***************************************************************************)
DecodedSize == ImageSize(WorkingBytes.w, WorkingBytes.h)

TargetSize == calculateResizeDimensions(DecodedSize, SettingsOf(cfg))

C18_OversizedForwardedResized ==
    (/\ Reformatted
     /\ req.data.decodable
     /\ WorkingBytes.decodable
     /\ TargetSize # DecodedSize)
        => /\ Emitted
           /\ EmittedFile.data.w = Pixels(TargetSize.Width)
           /\ EmittedFile.data.h = Pixels(TargetSize.Height)

(***************************************************************************)
(* C19.  As stated: an image whose width*height does not exceed            *)
(* IMG_MAX_PIXELS (by default IMG_MAX_WIDTH x IMG_MAX_HEIGHT) is never     *)
(* resized.  The calculator never reads the pixel budget.                  *)
(***************************************************************************)
\* Config.ImgMaxPixels, the derived value
ImgMaxPixels(s) == s.MaxWidth * s.MaxHeight

C19_WithinPixelBudgetUnchanged ==
    (calc.done
     /\ calc.original.Width * calc.original.Height <= ImgMaxPixels(calc.settings))
        => calc.result = calc.original

(***************************************************************************)
(* C20.  As stated: for every filename string the result is the filename   *)
(* with everything from its last '.' onward replaced by the canonical      *)
(* extension, or with the extension appended when it has no '.'; the empty *)
(* name yields the extension; both functions keep the same stem; applying  *)
(* the function twice equals applying it once.  This fails for a name      *)
(* whose last '.' precedes a path separator: the extension is appended.    *)
(***************************************************************************)
\* the name up to its last dot, the whole name when it has none
StemAnywhere(name) ==
    LET dot == LastIndexOf(name, ".", Len(name))
    IN  IF dot = 0 THEN name ELSE SubSeq(name, 1, dot - 1)

\* the name up to the last dot of its last path element
StemOfLastElement(name) ==
    LET dot == LastIndexOf(name, ".", Len(name))
        sep == LastIndexOf(name, "/", Len(name))
    IN  IF dot > sep THEN SubSeq(name, 1, dot - 1) ELSE name

C20_LastDotAnywhere ==
    naming.done =>
        /\ naming.jpg = StemAnywhere(naming.filename) \o ExtJPG
        /\ naming.webp = StemAnywhere(naming.filename) \o ExtWEBP
        /\ naming.again = naming.jpg

\* C20, amended: the result is the filename with everything from the last
\* '.' of its last path element onward replaced by the canonical extension,
\* or with the extension appended when that element has no '.'; the empty
\* name yields the extension; both functions keep the same stem; applying
\* the function twice equals applying it once.
C20_LastDotOfLastElement ==
    naming.done =>
        /\ naming.jpg = StemOfLastElement(naming.filename) \o ExtJPG
        /\ naming.webp = StemOfLastElement(naming.filename) \o ExtWEBP
        /\ naming.filename = <<>> => naming.jpg = ExtJPG /\ naming.webp = ExtWEBP
        /\ SubSeq(naming.jpg, 1, Len(naming.jpg) - Len(ExtJPG))
               = SubSeq(naming.webp, 1, Len(naming.webp) - Len(ExtWEBP))
        /\ naming.again = naming.jpg

\* a name whose last dot precedes a separator: a./a gives a./a.JPG
C20_Witness ==
    /\ naming.done
    /\ naming.filename = <<"a", ".", "/", "a">>
    /\ naming.jpg = <<"a", ".", "/", "a", ".", "J", "P", "G">>
    /\ naming.webp = <<"a", ".", "/", "a", ".", "W", "E", "B", "P">>
    /\ naming.again = naming.jpg

(***************************************************************************)
(* Observers of the loaded configuration.                                  *)
(***************************************************************************)
Loaded == cfg # NoConfig

\* the field of the configuration an environment variable sets
FieldOf(c, name) ==
    CASE name = "IMG_MAX_WIDTH" -> c.ImgMaxWidth
      [] name = "IMG_MAX_HEIGHT" -> c.ImgMaxHeight
      [] name = "IMG_MAX_NARROW_SIDE" -> c.ImgMaxNarrowSide
      [] name = "JPEG_QUALITY" -> c.JpegQuality
      [] name = "WEBP_QUALITY" -> c.WebpQuality
      [] name = "NORMALIZE_EXTENSIONS" -> c.NormalizeExt
      [] name = "UPLOAD_MAX_SIZE" -> c.UploadMaxSize
      [] name = "IMG_MAX_PIXELS" -> c.ImgMaxPixels
      [] name = "FORWARD_DESTINATION" -> c.ForwardDestination
      [] name = "FILE_UPLOAD_FIELD" -> c.FileUploadField
      [] name = "LISTEN_PATH" -> c.ListenPath
      [] name = "CONVERT_TO_FORMAT" -> c.ConvertToFormat

IntNames ==
    {"IMG_MAX_WIDTH", "IMG_MAX_HEIGHT", "IMG_MAX_NARROW_SIDE", "JPEG_QUALITY",
     "WEBP_QUALITY", "NORMALIZE_EXTENSIONS", "UPLOAD_MAX_SIZE"}

\* the integers a variable accepts
Accepts(name, n) ==
    CASE name \in {"IMG_MAX_WIDTH", "IMG_MAX_HEIGHT", "UPLOAD_MAX_SIZE"} -> n > 0
      [] name = "IMG_MAX_NARROW_SIDE" -> n >= 0
      [] name \in {"JPEG_QUALITY", "WEBP_QUALITY"} -> n \in 1..100
      [] name = "NORMALIZE_EXTENSIONS" -> n \in {0, 1}

\* the text of a variable is set and is not a value the variable accepts
Rejected(name) ==
    /\ env[name] # <<>>
    /\ IF name \in IntNames
       THEN Atoi(env[name]).err \/ ~Accepts(name, Atoi(env[name]).n)
       ELSE /\ name = "CONVERT_TO_FORMAT"
            /\ ToUpper(TrimSpace(env[name]))
                   \notin {<<>>, TextJPEG, TextJPG, TextWEBP}

\* the environment with every variable but one unset
Only(name) == [other \in EnvNames |-> IF other = name THEN env[name] ELSE <<>>]

\* the variables NewConfigFromEnv reads
ReadNames == EnvNames \ {"IMG_MAX_PIXELS"}

\* C21: the configuration NewConfigFromEnv builds has both qualities in
\* 1..100, positive width, height and upload limit, a narrow side of at least
\* 0 and a conversion format among "", "JPEG" and "WEBP"; a variable whose
\* text is rejected leaves its field at the default, every field is what
\* it would be if its own variable were the only one set, and the declared
\* name that is not read changes nothing.
C21_ConfigAlwaysValid ==
    Loaded =>
        /\ cfg.JpegQuality \in 1..100
        /\ cfg.WebpQuality \in 1..100
        /\ cfg.ImgMaxWidth > 0
        /\ cfg.ImgMaxHeight > 0
        /\ cfg.ImgMaxNarrowSide >= 0
        /\ cfg.UploadMaxSize > 0
        /\ cfg.ConvertToFormat \in {"", "JPEG", "WEBP"}
        /\ \A name \in ReadNames :
              /\ Rejected(name) => FieldOf(cfg, name) = FieldOf(DefaultConfig, name)
              /\ FieldOf(cfg, name) = FieldOf(NewConfigFromEnv(Only(name)), name)
        /\ cfg.ImgMaxPixels = cfg.ImgMaxWidth * cfg.ImgMaxHeight
        /\ cfg = NewConfigFromEnv([env EXCEPT !["IMG_MAX_PIXELS"] = <<>>])

\* a rejected quality next to a format given in lower case between white
\* space
C21_Witness ==
    /\ Loaded
    /\ env["JPEG_QUALITY"] = <<"1", "0", "1">>
    /\ cfg.JpegQuality = DEFAULT_JPEG_QUALITY
    /\ env["CONVERT_TO_FORMAT"] = <<"\t", "j", "p", "e", "g", "U+2003">>
    /\ cfg.ConvertToFormat = "JPEG"

(***************************************************************************)
(* Observers of the processing result.                                     *)
(***************************************************************************)
\* processImageWithStrategy ran on the upload and returned a nil error
ProcessedWithoutError == Reformatted /\ result.ProcessingError = "nil"

\* the pixel dimensions of a buffer, as the codec decodes them
DecodedDimensions(b) == ImageSize(Size(b).Width, Size(b).Height)

\* C22: for every result returned without error, NewDimensions equals the
\* pixel dimensions present in ProcessedData, on every path (transparency
\* skip, no resize, resize only, conversion adopted, conversion rejected).
C22_DimensionsMatchBytes ==
    ProcessedWithoutError =>
        result.NewDimensions = DecodedDimensions(result.ProcessedData)

\* the codec's resize/encode call of step 5 failed
EncodeFailed == Reformatted /\ result.ProcessingError = "process"

\* C23: when the codec's resize/encode call fails, on the resize-only path
\* or on the conversion path, ProcessedData is workingBytes (the
\* orientation-corrected buffer), the error is set, WasCompressed and
\* WasResized are false and NewDimensions is the decoded size of workingBytes.
C23_EncodeFailureKeepsWorkingBytes ==
    EncodeFailed =>
        /\ Called("Process")
        /\ ~codec.process.ok
        /\ result.ProcessedData = WorkingBytes
        /\ ~result.WasCompressed
        /\ ~result.WasResized
        /\ result.NewDimensions = DecodedDimensions(WorkingBytes)

\* the resize-only call fails on a rotated image that is not square
C23_Witness ==
    /\ EncodeFailed
    /\ cfg.ConvertToFormat = ""
    /\ RotationApplied
    /\ WorkingBytes # req.data
    /\ result.NewDimensions.Width # result.NewDimensions.Height
    /\ result.NewDimensions = ImageSize(req.data.h, req.data.w)

\* handleEXIFOrientation as processImageWithStrategy called it on the upload
Oriented == handleEXIFOrientation(req.data, codec)

\* the pipeline went past the transparency check
ReachedOrientation ==
    Reformatted /\ ~SkipsForTransparency(cfg.ConvertToFormat, req.data)

\* C24: orientation correction is never fatal.  handleEXIFOrientation
\* returns a nil error for every input; AutoRotate is called only when the
\* metadata was read and the orientation is greater than 1; when the metadata
\* cannot be read or AutoRotate fails the original bytes are returned; and
\* processing goes on to the size decode (the result is never the
\* orientation error, and its error is "size" exactly when the working bytes
\* do not decode).
C24_OrientationNeverFatal ==
    ReachedOrientation =>
        /\ ~Oriented.err
        /\ result.ProcessingError # "orientation"
        /\ Called("AutoRotate") <=>
              (~Metadata(req.data).err /\ Metadata(req.data).Orientation > 1)
        /\ (Metadata(req.data).err \/ (Called("AutoRotate") /\ ~codec.rotate.ok))
              => (Oriented.data = req.data /\ Oriented.image = req.data)
        /\ (result.ProcessingError = "size") <=> Size(Oriented.image).err

\* AutoRotate failed on a turned image and the image was resized all the same
C24_Witness ==
    /\ ReachedOrientation
    /\ Called("AutoRotate")
    /\ ~codec.rotate.ok
    /\ Oriented.data = req.data
    /\ result.ProcessingError = "nil"
    /\ result.WasResized

\* how many times the request's handling invoked a codec transformation
CallCount(name) ==
    Cardinality({i \in DOMAIN result.CodecCalls : result.CodecCalls[i] = name})

\* a codec transformation of this request failed
RotateFailed == Called("AutoRotate") /\ ~codec.rotate.ok

CodecFailed == RotateFailed \/ EncodeFailed

\* the claim as stated: after any codec failure, no further codec call
C25_NoCallAfterAnyFailure ==
    Reformatted =>
        /\ CallCount("AutoRotate") <= 1
        /\ CallCount("Process") <= 1
        /\ RotateFailed => ~Called("Process")
        /\ CodecFailed => Emitted

\* C25, amended: in the handling of one request AutoRotate is invoked at
\* most once and Process at most once, AutoRotate first; Process is the last
\* codec call, so nothing follows its failure, while a failed AutoRotate is
\* followed by the resize/encode of the unrotated image whenever that image
\* decodes and needs processing; after any codec failure the request still
\* emits a body.
C25_NoRetry ==
    Reformatted =>
        /\ CallCount("AutoRotate") <= 1
        /\ CallCount("Process") <= 1
        /\ Called("Process") =>
              result.CodecCalls[Len(result.CodecCalls)] = "Process"
        /\ CodecFailed => Emitted

\* AutoRotate failed, Process was then called once and failed too, and the
\* body was emitted
C25_Witness ==
    /\ Reformatted
    /\ RotateFailed
    /\ EncodeFailed
    /\ result.CodecCalls = <<"AutoRotate", "Process">>
    /\ Emitted

(***************************************************************************)
(* Observers of the concurrent handlers.                                   *)
(***************************************************************************)
\* what the handler's request produces when it is handled alone
Alone(i) ==
    IF tasks[i].r.multipart
    THEN reformatMultipart_proxy(tasks[i].r, settings, tasks[i].co,
                                 tasks[i].order)
    ELSE ReadBody(tasks[i].r)

HasWritten(i) == tasks[i].pc \in {"written", "sent", "panicked", "answered"}

\* the outbound request of a handler that has built one is that of its
\* request handled alone
SentAsAlone(i) ==
    (tasks[i].pc \in {"sent", "panicked", "answered"} /\ ~tasks[i].out.err) =>
        tasks[i].forwarded =
            Forward(tasks[i].r, settings, Alone(i).contentType, Alone(i).body)

\* every handler that has written holds the body of its request handled alone
BodiesAsAlone ==
    \A i \in Handlers :
        HasWritten(i) =>
            /\ tasks[i].out.err = Alone(i).err
            /\ tasks[i].out.body = Alone(i).body
            /\ tasks[i].out.contentType = Alone(i).contentType
            /\ SentAsAlone(i)

\* a step changes the locals of one handler at most, and never the
\* settings
StepsAreLocal ==
    /\ settings' = settings
    /\ \A i, j \in Handlers :
          (i # j /\ tasks'[i] # tasks[i]) => tasks'[j] = tasks[j]

\* C26: request independence.  Under every interleaving of the handlers'
\* steps, each request's outbound body (fields, filename, MIME type and file
\* bytes) is the one the request produces when handled alone, and no step of
\* a handler changes the locals of another handler or the configuration.
C26_RequestIndependence == []BodiesAsAlone /\ [][StepsAreLocal]_vars

\* two different uploads are in flight, both bodies written, and the bodies
\* differ
C26_Witness ==
    /\ tasks[1].pc = "written"
    /\ tasks[2].pc = "written"
    /\ tasks[1].r # tasks[2].r
    /\ tasks[1].result.WasCompressed
    /\ ~tasks[2].result.WasCompressed
    /\ tasks[1].out.body # tasks[2].out.body
    /\ BodiesAsAlone

\* C27: under the bounding-box strategy the returned dimensions fit inside
\* the orientation-matched box, for every original size and every
\* (maxWidth, maxHeight): width <= effectiveMaxWidth and
\* height <= effectiveMaxHeight.
C27_ResultFitsEffectiveBox ==
    BoxStrategy =>
        /\ calc.result.Width <= EffectiveMaxWidth
        /\ calc.result.Height <= EffectiveMaxHeight

\* a portrait image scaled by its height under a landscape box: {9,22} in
\* 4x3 gives {1,4}, inside the 3x4 box
C27_Witness ==
    /\ BoxStrategy
    /\ ~FitsBox
    /\ calc.original = ImageSize(9, 22)
    /\ calc.settings.MaxWidth = 4
    /\ calc.settings.MaxHeight = 3
    /\ EffectiveMaxWidth = 3
    /\ EffectiveMaxHeight = 4
    /\ calc.result.Height = EffectiveMaxHeight
    /\ calc.result.Width < EffectiveMaxWidth

\* the complete output of the codec's resize/encode call of this request
EncodedOutput ==
    Process(WorkingBytes,
            [Width |-> result.NewDimensions.Width,
             Height |-> result.NewDimensions.Height,
             Quality |-> IF cfg.ConvertToFormat = "WEBP" THEN cfg.WebpQuality
                         ELSE IF cfg.ConvertToFormat = "" THEN 0
                         ELSE cfg.JpegQuality,
             Type |-> IF cfg.ConvertToFormat = "" THEN ""
                      ELSE IF cfg.ConvertToFormat = "WEBP" THEN "WEBP" ELSE "JPEG"],
            codec.process).bytes

\* C28: process always hands the caller valid bytes.  For every upload and
\* every combination of codec outcomes the result's ProcessedData is the
\* original input, the orientation-corrected bytes, or the complete output of
\* the codec's encoder, and it is never empty; the encoder's output appears
\* only when the encoder succeeded.
C28_AlwaysValidBytes ==
    Reformatted =>
        /\ result # NoResult
        /\ result.ProcessedData.len > 0
        /\ \/ result.ProcessedData = req.data
           \/ RotationApplied /\ result.ProcessedData = WorkingBytes
           \/ /\ Called("Process")
              /\ codec.process.ok
              /\ result.ProcessingError = "nil"
              /\ result.ProcessedData = EncodedOutput

\* each of the three kinds of bytes is handed back by some run; shown here:
\* the encoder's output after a rotation, different from both other buffers
C28_Witness ==
    /\ Reformatted
    /\ RotationApplied
    /\ result.ProcessedData = EncodedOutput
    /\ result.ProcessedData # req.data
    /\ result.ProcessedData # WorkingBytes
    /\ result.WasCompressed

\* both variants of the bounding-box calculator on the arguments of the call
SwapVariant ==
    calculateBoundingBoxResizeSwap(calc.original, calc.settings.MaxWidth,
                                   calc.settings.MaxHeight)

SortVariant ==
    calculateBoundingBoxResize(calc.original, calc.settings.MaxWidth,
                               calc.settings.MaxHeight)

\* C29: the two bounding-box variants of the source (swap the limits only
\* when the orientation of the image and of the configured box disagree;
\* sort the limits into long and short and assign them by the orientation of
\* the image) return the same dimensions for every original size and every
\* (maxWidth, maxHeight), square images and maxWidth = maxHeight included.
C29_VariantsAgree ==
    calc.done =>
        /\ SwapVariant = SortVariant
        /\ BoxStrategy => calc.result = SwapVariant

\* a portrait image under a landscape box, where the older variant swaps:
\* {6,9} in 4x3 gives {2,4} in both
C29_Witness ==
    /\ BoxStrategy
    /\ calc.original = ImageSize(6, 9)
    /\ calc.settings.MaxWidth = 4
    /\ calc.settings.MaxHeight = 3
    /\ SwapVariant = ImageSize(2, 4)
    /\ SwapVariant # calculateBoundingBoxResizeFixedBox(calc.original, 4, 3)
    /\ calc.result = SwapVariant

\* processImageWithStrategy returned an error to reformatMultipart
ReturnedError == Reformatted /\ result.ProcessingError \notin {"nil", "not run"}

\* C30: whenever processImageWithStrategy returns an error, reformatMultipart
\* ignores result.ProcessedData and emits the original upload under the
\* original filename and MIME type (the binary default when none was
\* declared); after a successful rotation followed by a size-decode or an
\* encode failure the emitted bytes are the upload as it came, not the
\* orientation-corrected buffer the result holds.
C30_OriginalEmittedOnError ==
    ReturnedError =>
        /\ Emitted
        /\ Len(FileParts) = 1
        /\ EmittedFile.kind = "file"
        /\ EmittedFile.data = req.data
        /\ EmittedFile.filename = OriginalFilename
        /\ EmittedFile.mimeType =
               (IF req.mime = "" THEN DEFAULT_MIME_TYPE ELSE req.mime)

\* the rotation succeeded, the encoder failed: the result holds the rotated
\* buffer and the body carries the upload
C30_Witness ==
    /\ ReturnedError
    /\ result.ProcessingError = "process"
    /\ RotationApplied
    /\ result.ProcessedData = WorkingBytes
    /\ result.ProcessedData # req.data
    /\ Emitted
    /\ EmittedFile.data = req.data

====
